---- MODULE Spec2Model ----
(***************************************************************************)
(* Verification model of the LLM Council backend (backend/openrouter.py,   *)
(* backend/council.py, backend/storage.py, backend/main.py).               *)
(*                                                                         *)
(* The module holds several specifications over one set of variables:      *)
(*   SpecQuery  one call of openrouter.query_model (retry loop)            *)
(*   SpecPanel  council._normalize_expert_team / stage_brainstorm_experts  *)
(*   Spec       one user turn: send_message_stream, then                   *)
(*              continue_message_stream with the whole stage pipeline      *)
(*   SpecContinue  the continuation alone; FairSpecContinue adds fairness  *)
(*   SpecGate   several continue requests on one stored conversation       *)
(*   SpecJson   one call of council._extract_json / _extract_json_array     *)
(*   SpecDraft  one call of council._normalize_intent_draft (questions)    *)
(*   SpecDisplay  the display payload of _normalize_intent_draft           *)
(*   SpecBrainstorm  stage_brainstorm_experts and the calls it gathers     *)
(*   SpecScope  one call of council._compute_search_query_count            *)
(*   SpecVerification  stage_verification and the calls it awaits          *)
(*   SpecStorage  the conversation files and the endpoints on them         *)
(*   SpecTyped  _normalize_intent_draft over the JSON types of its fields  *)
(*   SpecFinalize  stage0_finalize_intent and the calls it awaits          *)
(*   SpecDraftLoop  the candidate loop of stage0_generate_intent_draft     *)
(*   SpecClients  several clients sending and continuing on a conversation *)
(* A specification leaves the variables of the others at their idle value. *)
(***************************************************************************)
EXTENDS Integers, Sequences, FiniteSets, TLC

VARIABLES
    \* ---- openrouter.query_model ----
    q_pc,                          \* position in query_model
    api_key,                       \* OPENROUTER_API_KEY is set
    extra_body,                    \* "none" | "plain" | "reasoning"
    payload_reasoning,             \* payload holds the "reasoning" directive
    can_retry_without_reasoning,   \* the local of that name
    attempt,                       \* loop variable of `for attempt in range(max_retries)`
    requests,                      \* requests posted: <<[attempt, reasoning]>>
    responses,                     \* what each request came back with
    delays,                        \* asyncio.sleep(delay) calls taken, in order
    q_result,                      \* the value query_model returns
    \* ---- council.stage_brainstorm_experts / _normalize_expert_team ----
    p_pc,                          \* "build" | "done"
    num_experts,                   \* the num_experts argument (K)
    raw_experts,                   \* data["experts"] of the synthesis output
    synthesis,                     \* how the chairman synthesis call came out
    experts,                       \* the panel stage_brainstorm_experts returns
    \* ---- storage.py: the stored conversation ----
    conv_exists,                   \* the conversation file exists
    messages,                      \* conversation["messages"]
    \* ---- main.send_message_stream ----
    s_pc,                          \* position of the request / its event_generator
    events1,                       \* events yielded on the first stream
    is_first_message,              \* the local of that name
    candidate,                     \* index into candidate_models (draft loop, repair loop)
    draft_step,                    \* "intent" | "display" | "check" inside the loop body
    intent_response,               \* stage0_generate_intent_draft.intent_response
    display_response,              \* stage0_generate_intent_draft.display_response
    draft_outcome,                 \* how stage0_generate_intent_draft ended
    \* ---- main.continue_message_stream ----
    c_pc,                          \* position of the request / its event_generator
    events2,                       \* events yielded on the continuation stream
    clarification_payload,         \* [answers, skip] of the ContinueMessageRequest
    pending_index,                 \* index of the pending message (1-based, 0: none)
    finalize_call,                 \* number of the next call of stage0_finalize_intent
    intent_analysis,               \* result of stage0_finalize_intent
    expert_i,                      \* position in `for i, expert in enumerate(experts)`
    prior_work,                    \* the contributions the call in flight was given
    contributions,                 \* event_generator.contributions
    verification_data,
    synthesis_plan,
    editorial_guidelines,
    stage3_result,
    storage_error,                 \* the storage call that raised in the continuation
    \* ---- several continue requests on one conversation ----
    g_pc,                          \* per request: position of the handler / generator
    g_payload,                     \* per request: its clarification_payload
    g_pending,                     \* per request: pending_index and what was read there
    g_events,                      \* per request: events yielded on its stream
    \* ---- one call of a pure helper of council.py ----
    fn_pc,                         \* "call" | "done"
    fn_name,                       \* the helper that is called
    fn_in,                         \* its argument
    fn_expect,                     \* what the argument was built around (<<>>: nothing)
    fn_out,                        \* the value it returns
    \* ---- one stage function of council.py and the calls it awaits ----
    stage_pc,                      \* position in the stage function
    stage_calls,                   \* the model calls issued so far, each with how it stands
    stage_log,                     \* calls issued and finished, in the order it happened
    stage_locals,                  \* the locals of the stage function
    stage_result,                  \* the value the stage returns
    \* ---- storage.py: the conversation files of DATA_DIR and the API on them ----
    data_dir,                      \* per conversation id: its file, or that there is none
    api_calls,                     \* requests served so far
    api_response                   \* the response to the last request

qvars == <<q_pc, api_key, extra_body, payload_reasoning,
           can_retry_without_reasoning, attempt, requests, responses,
           delays, q_result>>

pvars == <<p_pc, num_experts, raw_experts, synthesis, experts>>

stvars == <<conv_exists, messages>>

svars == <<s_pc, events1, is_first_message, candidate, draft_step,
           intent_response, display_response, draft_outcome>>

cvars == <<c_pc, events2, clarification_payload, pending_index, finalize_call,
           intent_analysis, expert_i, prior_work, contributions,
           verification_data, synthesis_plan, editorial_guidelines,
           stage3_result, storage_error>>

gvars == <<g_pc, g_payload, g_pending, g_events>>

fvars == <<fn_pc, fn_name, fn_in, fn_expect, fn_out>>

stagevars == <<stage_pc, stage_calls, stage_log, stage_locals, stage_result>>

dvars == <<data_dir, api_calls, api_response>>

vars == <<qvars, pvars, stvars, svars, cvars, gvars, fvars, stagevars, dvars>>

\* What each specification leaves unchanged.
notQuery == <<pvars, stvars, svars, cvars, gvars, fvars, stagevars, dvars>>
notPanel == <<qvars, stvars, svars, cvars, gvars, fvars, stagevars, dvars>>

\* The idle values a specification leaves the other parts at.
IdleQuery ==
    /\ q_pc = "idle"
    /\ api_key = TRUE
    /\ extra_body = "none"
    /\ payload_reasoning = FALSE
    /\ can_retry_without_reasoning = FALSE
    /\ attempt = 0
    /\ requests = <<>>
    /\ responses = <<>>
    /\ delays = <<>>
    /\ q_result = [kind |-> "pending"]

IdlePanel ==
    /\ p_pc = "idle"
    /\ num_experts = 0
    /\ raw_experts = <<>>
    /\ synthesis = "idle"
    /\ experts = <<>>

IdleStreams ==
    /\ s_pc = "idle"
    /\ events1 = <<>>
    /\ is_first_message = FALSE
    /\ candidate = 0
    /\ draft_step = "idle"
    /\ intent_response = [kind |-> "pending"]
    /\ display_response = [kind |-> "pending"]
    /\ draft_outcome = "idle"
    /\ c_pc = "idle"
    /\ events2 = <<>>
    /\ clarification_payload = [answers |-> 0, skip |-> FALSE]
    /\ pending_index = 0
    /\ finalize_call = 0
    /\ intent_analysis = "unset"
    /\ expert_i = 0
    /\ prior_work = <<>>
    /\ contributions = <<>>
    /\ verification_data = "unset"
    /\ synthesis_plan = "unset"
    /\ editorial_guidelines = "unset"
    /\ stage3_result = "unset"
    /\ storage_error = "none"

\* Largest number of continue requests sent for one conversation.
NumRequests == 2

Requests == 1..NumRequests

IdleGate ==
    /\ g_pc = [r \in Requests |-> "idle"]
    /\ g_payload = [r \in Requests |-> [answers |-> 0, skip |-> FALSE]]
    /\ g_pending = [r \in Requests |-> [index |-> 0, status |-> "none"]]
    /\ g_events = [r \in Requests |-> <<>>]

IdleData ==
    /\ data_dir = <<>>
    /\ api_calls = 0
    /\ api_response = <<>>

IdleStage ==
    /\ stage_pc = "idle"
    /\ stage_calls = <<>>
    /\ stage_log = <<>>
    /\ stage_locals = <<>>
    /\ stage_result = <<>>

IdleHelper ==
    /\ fn_pc = "idle"
    /\ fn_name = "none"
    /\ fn_in = <<>>
    /\ fn_expect = <<>>
    /\ fn_out = <<>>

IdleTurn ==
    /\ conv_exists = FALSE
    /\ messages = <<>>
    /\ IdleStreams
    /\ IdleGate
    /\ IdleHelper

(***************************************************************************)
(* openrouter.query_model                                                  *)
(***************************************************************************)
max_retries == 3
base_delay == 2

\* What one client.post can come back with.  exc: the exception raised by
\* the post ("none" when a response arrived); marker: the error text of a
\* 400/422 holds "reasoning" or "unsupported"; body: the shape of a 200 body.
Http(status, marker, body) ==
    [exc |-> "none", status |-> status, marker |-> marker, body |-> body]

Raised(exc) ==
    [exc |-> exc, status |-> 0, marker |-> FALSE, body |-> "none"]

Responses ==
    { Http(429, FALSE, "none"), Http(401, FALSE, "none"), Http(403, FALSE, "none"),
      Http(400, TRUE, "none"), Http(400, FALSE, "none"),
      Http(422, TRUE, "none"), Http(422, FALSE, "none"),
      Http(404, FALSE, "none"), Http(500, FALSE, "none"),
      Http(200, FALSE, "text"), Http(200, FALSE, "blank"),
      Http(200, FALSE, "empty"), Http(200, FALSE, "null"),
      Http(200, FALSE, "nochoices"), Http(200, FALSE, "badbody"),
      Raised("timeout"), Raised("error") }

\* The values query_model returns.
Pending == [kind |-> "pending"]
NoneResult == [kind |-> "None"]
ErrorDict(status) ==
    [kind |-> "dict", content |-> "null", error |-> TRUE, status_code |-> status]
ContentDict(content) ==
    [kind |-> "dict", content |-> content, error |-> FALSE, status_code |-> 0]

\* delay = base_delay * (2 ** attempt)
BackoffLinear(n) == base_delay * (n + 1)
Backoff(n) == base_delay * (2 ^ n)

\* `continue`: the for loop takes the next attempt, or is exhausted and
\* control falls through to the final `return None`.
LoopContinue ==
    /\ attempt' = attempt + 1
    /\ IF attempt + 1 < max_retries
          THEN /\ q_pc' = "post"
               /\ q_result' = q_result
          ELSE /\ q_pc' = "done"
               /\ q_result' = NoneResult

\* The `except Exception` branch for anything but a strippable timeout.
ExceptRetry ==
    IF attempt < max_retries - 1
       THEN /\ delays' = Append(delays, Backoff(attempt))
            /\ LoopContinue
       ELSE /\ q_pc' = "done"
            /\ q_result' = NoneResult
            /\ UNCHANGED <<attempt, delays>>

\* payload.pop("reasoning"); can_retry_without_reasoning = False; continue
StripReasoning ==
    /\ payload_reasoning' = FALSE
    /\ can_retry_without_reasoning' = FALSE
    /\ LoopContinue
    /\ UNCHANGED delays

QReturn(value) ==
    /\ q_pc' = "done"
    /\ q_result' = value
    /\ UNCHANGED <<attempt, delays, payload_reasoning, can_retry_without_reasoning>>

\* Entry of query_model: the API key check and the payload set-up.
QStart ==
    /\ q_pc = "start"
    /\ IF ~api_key
          THEN /\ q_pc' = "done"
               /\ q_result' = NoneResult
               /\ UNCHANGED <<payload_reasoning, can_retry_without_reasoning>>
          ELSE /\ q_pc' = "post"
               /\ payload_reasoning' = (extra_body = "reasoning")
               /\ can_retry_without_reasoning' = (extra_body = "reasoning")
               /\ UNCHANGED q_result
    /\ UNCHANGED <<api_key, extra_body, attempt, requests, responses, delays>>
    /\ UNCHANGED notQuery

\* client.post(...) is issued with the current payload.
QPost ==
    /\ q_pc = "post"
    /\ requests' = Append(requests, [attempt |-> attempt, reasoning |-> payload_reasoning])
    /\ q_pc' = "wait"
    /\ UNCHANGED <<api_key, extra_body, payload_reasoning, can_retry_without_reasoning,
                   attempt, responses, delays, q_result>>
    /\ UNCHANGED notQuery

\* A try block that treats 401/403 like any other error status.
QHandleAuthRetry(r) ==
    IF r.exc = "timeout" /\ can_retry_without_reasoning
       THEN StripReasoning
    ELSE IF r.exc # "none"
       THEN ExceptRetry /\ UNCHANGED <<payload_reasoning, can_retry_without_reasoning>>
    ELSE IF r.status = 429
       THEN /\ delays' = Append(delays, Backoff(attempt))
            /\ LoopContinue
            /\ UNCHANGED <<payload_reasoning, can_retry_without_reasoning>>
    ELSE IF r.status \in {401, 403}
       THEN ExceptRetry /\ UNCHANGED <<payload_reasoning, can_retry_without_reasoning>>
    ELSE IF r.status \in {400, 422} /\ can_retry_without_reasoning /\ r.marker
       THEN StripReasoning
    ELSE IF r.status # 200
       THEN \* response.raise_for_status() raises
            ExceptRetry /\ UNCHANGED <<payload_reasoning, can_retry_without_reasoning>>
    ELSE IF r.body = "badbody"
       THEN \* response.json() or data['choices'][0]['message'] raises
            ExceptRetry /\ UNCHANGED <<payload_reasoning, can_retry_without_reasoning>>
    ELSE IF r.body = "nochoices"
       THEN QReturn(ErrorDict(200))
    ELSE QReturn(ContentDict(r.body))

\* The body of the try block and its except branch, for one response.
QHandle(r) ==
    IF r.exc = "timeout" /\ can_retry_without_reasoning
       THEN StripReasoning
    ELSE IF r.exc # "none"
       THEN ExceptRetry /\ UNCHANGED <<payload_reasoning, can_retry_without_reasoning>>
    ELSE IF r.status = 429
       THEN /\ delays' = Append(delays, Backoff(attempt))
            /\ LoopContinue
            /\ UNCHANGED <<payload_reasoning, can_retry_without_reasoning>>
    ELSE IF r.status \in {401, 403}
       THEN QReturn(ErrorDict(r.status))
    ELSE IF r.status \in {400, 422} /\ can_retry_without_reasoning /\ r.marker
       THEN StripReasoning
    ELSE IF r.status # 200
       THEN \* response.raise_for_status() raises
            ExceptRetry /\ UNCHANGED <<payload_reasoning, can_retry_without_reasoning>>
    ELSE IF r.body = "badbody"
       THEN \* response.json() or data['choices'][0]['message'] raises
            ExceptRetry /\ UNCHANGED <<payload_reasoning, can_retry_without_reasoning>>
    ELSE IF r.body = "nochoices"
       THEN QReturn(ErrorDict(200))
    ELSE QReturn(ContentDict(r.body))

QResponse ==
    /\ q_pc = "wait"
    /\ \E r \in Responses :
          /\ responses' = Append(responses, r)
          /\ QHandle(r)
    /\ UNCHANGED <<api_key, extra_body, requests>>
    /\ UNCHANGED notQuery

InitQuery ==
    /\ q_pc = "start"
    /\ api_key \in BOOLEAN
    /\ extra_body \in {"none", "plain", "reasoning"}
    /\ payload_reasoning = FALSE
    /\ can_retry_without_reasoning = FALSE
    /\ attempt = 0
    /\ requests = <<>>
    /\ responses = <<>>
    /\ delays = <<>>
    /\ q_result = Pending
    /\ IdlePanel
    /\ IdleData
    /\ IdleStage
    /\ IdleTurn

NextQuery == QStart \/ QPost \/ QResponse

SpecQuery == InitQuery /\ [][NextQuery]_vars

\* Every gateway call returns: the event loop keeps running the coroutine.
FairSpecQuery == SpecQuery /\ WF_vars(NextQuery)

(***************************************************************************)
(* Claims about query_model                                                *)
(***************************************************************************)
Is429(r) == r.exc = "none" /\ r.status = 429

Only429 == responses # <<>> /\ \A i \in 1..Len(responses) : Is429(responses[i])

\* The request was answered by a rejection of the reasoning directive
\* (400/422 with the marker in the error text) or by a timeout.
DirectiveRejected(i) ==
    /\ requests[i].reasoning
    /\ \/ responses[i].exc = "timeout"
       \/ /\ responses[i].exc = "none"
          /\ responses[i].status \in {400, 422}
          /\ responses[i].marker

QDone == q_pc = "done"

\* C9 (safety part): a finished call that saw only 429 responses posted
\* exactly 3 requests, slept 2, 4 and 8 seconds in that order and returned
\* None; and no call ever posts more than 3 requests.
C9_RetryBound ==
    /\ Len(requests) <= 3
    /\ Len(delays) <= Len(requests)
    /\ (QDone /\ Only429) =>
          /\ Len(requests) = 3
          /\ delays = <<2, 4, 8>>
          /\ q_result = NoneResult
    /\ QDone => q_result # Pending

\* C9: query_model issues at most 3 requests, backs off 2s, 4s, 8s under
\* rate limiting and then reports failure, and every call terminates with
\* a result.
C9_RateLimitRetry == []C9_RetryBound /\ <>(QDone /\ q_result # Pending)

C9_Witness ==
    /\ QDone
    /\ Only429
    /\ Len(requests) = 3
    /\ delays = <<2, 4, 8>>
    /\ q_result = NoneResult

\* C10 (as claimed): whenever a request carrying the reasoning directive is
\* rejected with the marker or times out, a further request without the
\* directive is posted before query_model returns, on whichever attempt
\* this happens; and at most one request is answered that way per call.
C10_StripRetryAlways ==
    /\ QDone =>
          \A i \in 1..Len(responses) :
              DirectiveRejected(i) =>
                  \E j \in (i + 1)..Len(requests) : ~requests[j].reasoning
    /\ Cardinality({i \in 1..Len(responses) : DirectiveRejected(i)}) <= 1

\* The state C10 fails in: the rejection arrives on the last attempt and
\* query_model returns None without posting the stripped request.
C10_Witness ==
    /\ QDone
    /\ Len(responses) = 3
    /\ DirectiveRejected(3)
    /\ Len(requests) = 3
    /\ q_result = NoneResult

IsAuthFailure(r) == r.exc = "none" /\ r.status \in {401, 403}

\* A 401/403 is the last response of its call, and the call has returned
\* null content with that status code.
C11_AuthEndsCall ==
    \A i \in 1..Len(responses) :
        IsAuthFailure(responses[i]) =>
            /\ i = Len(responses)
            /\ Len(requests) = i
            /\ QDone
            /\ q_result = ErrorDict(responses[i].status)
            /\ q_result.content = "null"
            /\ Len(delays) <= i - 1

\* The step that receives a 401/403 takes no delay and returns.
C11_NoDelayOnAuth ==
    (Len(responses') = Len(responses) + 1
        /\ IsAuthFailure(responses'[Len(responses')])) =>
            /\ delays' = delays
            /\ requests' = requests
            /\ q_pc' = "done"

IsNonRetryable4xx(r) ==
    /\ r.exc = "none"
    /\ r.status \in {400, 404, 422}
    /\ ~r.marker

IsTransient(r) == r.exc # "none" \/ r.status \in {429, 500}

IsEmptySuccess(r) == r.exc = "none" /\ r.status = 200 /\ r.body \in {"empty", "null"}

\* The failure mode of a finished call: "fatal" for a missing key, an
\* authorization failure or a non-retryable 4xx; "transient" when every
\* response was a transient failure and the retries are used up; "empty"
\* for a successful response without content; "other" for the rest.
FailureMode ==
    IF ~api_key THEN "fatal"
    ELSE IF \E i \in 1..Len(responses) :
                IsAuthFailure(responses[i]) \/ IsNonRetryable4xx(responses[i])
       THEN "fatal"
    ELSE IF responses # <<>> /\ IsEmptySuccess(responses[Len(responses)])
       THEN "empty"
    ELSE IF Len(responses) = max_retries
            /\ \A i \in 1..Len(responses) : IsTransient(responses[i])
       THEN "transient"
    ELSE "other"

\* What a caller can read from the returned value alone.  None is what a
\* call returns when its retries are used up on transient failures (C9).
ResultMode(result) ==
    IF result = NoneResult THEN "transient"
    ELSE IF result.kind = "dict" /\ result.error THEN "fatal"
    ELSE IF result.kind = "dict" /\ result.content \in {"empty", "null"} THEN "empty"
    ELSE "other"

\* C13 (as claimed): the returned value tells the failure modes apart:
\* a transient failure after exhausted retries, a fatal failure (missing
\* key, authorization failure, non-retryable 4xx) and a successful response
\* with empty content each yield a value of their own.
C13_ModesDistinguishable ==
    (QDone /\ FailureMode \in {"fatal", "transient", "empty"}) =>
        ResultMode(q_result) = FailureMode

\* The state C13 fails in: the API key is missing, no request was posted
\* and the call returned None, the value of an exhausted transient failure.
C13_Witness ==
    /\ QDone
    /\ ~api_key
    /\ requests = <<>>
    /\ FailureMode = "fatal"
    /\ q_result = NoneResult

(***************************************************************************)
(* council._normalize_expert_team and its caller stage_brainstorm_experts  *)
(***************************************************************************)
DEFAULT_NUM_EXPERTS == 6

\* Largest num_experts for which every raw entry list is enumerated.
MaxExperts == 3

\* The JSON values an entry's "order" can hold: null or absent, an integer,
\* a float (v + 0.5), a string of digits, any other text.
OrderNull == [t |-> "null", v |-> 0]
OrderInt(n) == [t |-> "int", v |-> n]
OrderFloat(n) == [t |-> "float", v |-> n]
OrderDigits(n) == [t |-> "digits", v |-> n]
OrderText == [t |-> "text", v |-> 0]

\* Python None as the result of _coerce_expert_order, and of item["order"].
NoOrder == 0

\* int(value): an int is itself, a float is truncated, a string of digits
\* is parsed, any other text raises ValueError (caught: None).
CoerceNoRange(value, max_order) ==
    IF value.t \in {"null", "text"} THEN NoOrder ELSE value.v

coerce_expert_order(value, max_order) ==
    IF value.t = "null" THEN NoOrder
    ELSE IF value.t = "text" THEN NoOrder
    ELSE IF value.v < 1 \/ value.v > max_order THEN NoOrder
    ELSE value.v

\* build_default_experts(num_experts): the deterministic panel, orders 1..n.
build_default_experts(n) ==
    [i \in 1..n |-> [src |-> "default", idx |-> i, order |-> i]]

\* First loop of _normalize_expert_team over raw_experts[:num_experts]:
\* an order is kept when it coerces and is not yet in used_orders.
RECURSIVE ClaimOrders(_, _, _, _, _)
ClaimOrders(raw, k, i, used_orders, normalized) ==
    IF i > Len(raw) \/ i > k THEN [used |-> used_orders, normalized |-> normalized]
    ELSE LET coerced == coerce_expert_order(raw[i].order, k)
             order_value == IF coerced \in used_orders THEN NoOrder ELSE coerced
             used2 == IF order_value # NoOrder
                         THEN used_orders \cup {order_value} ELSE used_orders
         IN ClaimOrders(raw, k, i + 1, used2,
                Append(normalized, [src |-> "raw", idx |-> i, order |-> order_value]))

\* remaining_orders = [order for order in range(1, num_experts + 1)
\*                     if order not in used_orders]
RECURSIVE RemainingFrom(_, _, _)
RemainingFrom(o, k, used_orders) ==
    IF o > k THEN <<>>
    ELSE IF o \in used_orders THEN RemainingFrom(o + 1, k, used_orders)
    ELSE <<o>> \o RemainingFrom(o + 1, k, used_orders)

\* The second loop with remaining_orders.pop() in place of pop(0).
RECURSIVE AssignFromLast(_, _, _)
AssignFromLast(normalized, i, remaining_orders) ==
    IF i > Len(normalized)
       THEN [normalized |-> normalized, remaining |-> remaining_orders]
    ELSE IF normalized[i].order = NoOrder /\ remaining_orders # <<>>
       THEN AssignFromLast(
                [normalized EXCEPT ![i].order = remaining_orders[Len(remaining_orders)]],
                i + 1, SubSeq(remaining_orders, 1, Len(remaining_orders) - 1))
    ELSE AssignFromLast(normalized, i + 1, remaining_orders)

\* Second loop: each item without an order takes remaining_orders.pop(0).
RECURSIVE AssignRemaining(_, _, _)
AssignRemaining(normalized, i, remaining_orders) ==
    IF i > Len(normalized)
       THEN [normalized |-> normalized, remaining |-> remaining_orders]
    ELSE IF normalized[i].order = NoOrder /\ remaining_orders # <<>>
       THEN AssignRemaining(
                [normalized EXCEPT ![i].order = Head(remaining_orders)],
                i + 1, Tail(remaining_orders))
    ELSE AssignRemaining(normalized, i + 1, remaining_orders)

\* Third loop: every order still remaining is padded from the defaults
\* (defaults_by_order holds orders 1..num_experts, so the generic
\* "Expert n" branch is taken only for an order the defaults lack).
RECURSIVE PadDefaults(_, _, _)
PadDefaults(normalized, remaining_orders, default_experts) ==
    IF remaining_orders = <<>> THEN normalized
    ELSE LET order == Head(remaining_orders)
             fallback == IF order \in DOMAIN default_experts
                            THEN default_experts[order]
                            ELSE [src |-> "generic", idx |-> order, order |-> order]
         IN PadDefaults(Append(normalized, fallback), Tail(remaining_orders),
                        default_experts)

\* normalized.sort(key=lambda item: item.get("order") or 999): a stable sort.
SortKey(item) == IF item.order = NoOrder THEN 999 ELSE item.order

RECURSIVE InsertSorted(_, _)
InsertSorted(sorted, item) ==
    IF sorted = <<>> THEN <<item>>
    ELSE IF SortKey(sorted[Len(sorted)]) <= SortKey(item) THEN Append(sorted, item)
    ELSE Append(InsertSorted(SubSeq(sorted, 1, Len(sorted) - 1), item),
                sorted[Len(sorted)])

RECURSIVE SortByOrder(_)
SortByOrder(items) ==
    IF items = <<>> THEN <<>>
    ELSE InsertSorted(SortByOrder(SubSeq(items, 1, Len(items) - 1)), items[Len(items)])

Truncate(items, k) == SubSeq(items, 1, IF Len(items) < k THEN Len(items) ELSE k)

normalize_expert_team(raw, k, default_experts) ==
    LET claimed == ClaimOrders(raw, k, 1, {}, <<>>)
        remaining_orders == RemainingFrom(1, k, claimed.used)
        assigned == AssignRemaining(claimed.normalized, 1, remaining_orders)
        padded == PadDefaults(assigned.normalized, assigned.remaining, default_experts)
    IN SortByOrder(Truncate(padded, k))

\* How the chairman synthesis call of stage_brainstorm_experts can come out:
\*   no_content     _safe_content(response) is None
\*   no_braces      the text holds no {...} span
\*   unparseable    json.loads fails also after the trailing-comma repair
\*   not_a_list     data["experts"] is not a list of objects (a TypeError or
\*                  AttributeError inside _normalize_expert_team)
\*   parsed         data["experts"] is a list of objects: raw_experts
SynthesisOutcomes == {"no_content", "no_braces", "unparseable", "not_a_list", "parsed"}

\* The experts stage_brainstorm_experts returns.
brainstorm_experts(outcome, raw, k) ==
    IF outcome = "parsed"
       THEN normalize_expert_team(raw, k, build_default_experts(k))
       ELSE build_default_experts(k)

\* Order values tried for a panel of k.
OrderValues(k) ==
    {OrderNull, OrderText, OrderFloat(1), OrderDigits(k)}
        \cup {OrderInt(n) : n \in 0..(k + 1)}

\* The raw orders of the panel example of the specification (K = 6):
\* [3, 3, null, 7, 1, null].
ExampleOrders ==
    <<OrderInt(3), OrderInt(3), OrderNull, OrderInt(7), OrderInt(1), OrderNull>>

IsPrefix(s, t) == Len(s) <= Len(t) /\ s = SubSeq(t, 1, Len(s))

RawOrders(raw) == [i \in 1..Len(raw) |-> raw[i].order]

\* One more entry of data["experts"].  For num_experts <= MaxExperts every
\* list of up to num_experts + 1 entries is built; for the default panel
\* size the example list is built.
PanelAddRaw ==
    /\ p_pc = "build"
    /\ \E o \in OrderValues(num_experts) :
          /\ raw_experts' = Append(raw_experts, [order |-> o])
          /\ IF num_experts <= MaxExperts
                THEN Len(raw_experts) <= num_experts
                ELSE IsPrefix(RawOrders(raw_experts'), ExampleOrders)
    /\ UNCHANGED <<p_pc, num_experts, synthesis, experts>>
    /\ UNCHANGED notPanel

\* stage_brainstorm_experts from the synthesis response on.
PanelForm ==
    /\ p_pc = "build"
    /\ \E outcome \in SynthesisOutcomes :
          /\ outcome = "parsed" \/ raw_experts = <<>>
          /\ synthesis' = outcome
          /\ experts' = brainstorm_experts(outcome, raw_experts, num_experts)
    /\ p_pc' = "done"
    /\ UNCHANGED <<num_experts, raw_experts>>
    /\ UNCHANGED notPanel

InitPanel ==
    /\ p_pc = "build"
    /\ num_experts \in (1..MaxExperts) \cup {DEFAULT_NUM_EXPERTS}
    /\ raw_experts = <<>>
    /\ synthesis = "pending"
    /\ experts = <<>>
    /\ IdleQuery
    /\ IdleData
    /\ IdleStage
    /\ IdleTurn

NextPanel == PanelAddRaw \/ PanelForm

SpecPanel == InitPanel /\ [][NextPanel]_vars

(***************************************************************************)
(* Claims about panel formation                                            *)
(***************************************************************************)
PanelDone == p_pc = "done"

\* C3: whatever the synthesis call yields, panel formation returns exactly
\* num_experts entries whose order values are 1, 2, ..., num_experts in
\* ascending position.
C3_PanelIsPermutation ==
    PanelDone =>
        /\ Len(experts) = num_experts
        /\ \A i \in 1..Len(experts) : experts[i].order = i

\* The example of the specification has been normalized: a duplicate, an
\* out-of-range and two missing orders among six entries.
C3_Witness ==
    /\ PanelDone
    /\ synthesis = "parsed"
    /\ num_experts = 6
    /\ RawOrders(raw_experts) = ExampleOrders
    /\ Len(experts) = 6
    /\ \A i \in 1..6 : experts[i].order = i

\* The order the i-th entry of data["experts"] has in the returned panel
\* (0: the entry is not in it).
ReceivedOrder(i) ==
    IF \E j \in 1..Len(experts) : experts[j].src = "raw" /\ experts[j].idx = i
       THEN (CHOOSE item \in {experts[j] : j \in 1..Len(experts)} :
                item.src = "raw" /\ item.idx = i).order
       ELSE 0

IsIntegerInRange(value, k) == value.t = "int" /\ value.v >= 1 /\ value.v <= k

\* int(value) succeeds and lands in [1..k]: an integer, a float (truncated)
\* or a string of digits.
CoercesInRange(value, k) ==
    value.t \in {"int", "float", "digits"} /\ value.v >= 1 /\ value.v <= k

\* The slot assignment the claim describes, over the first `considered`
\* entries of raw, with Accepted telling which order values are taken as
\* they are: an accepted value not claimed by an earlier entry is kept, the
\* other entries take the unclaimed slots from the smallest up, in
\* encounter order (0: no slot is left for the entry).
SlotPlan(raw, k, considered, Accepted(_, _)) ==
    LET Keeps(i) == /\ Accepted(raw[i].order, k)
                    /\ \A j \in 1..(i - 1) :
                          ~(Accepted(raw[j].order, k) /\ raw[j].order.v = raw[i].order.v)
        kept == { raw[i].order.v : i \in { n \in 1..considered : Keeps(n) } }
        free == (1..k) \ kept
        Rank(i) == Cardinality({ j \in 1..i : ~Keeps(j) })
    IN  [i \in 1..considered |->
            IF Keeps(i) THEN raw[i].order.v
            ELSE IF Rank(i) <= Cardinality(free)
               THEN CHOOSE slot \in free :
                        Cardinality({ x \in free : x < slot }) = Rank(i) - 1
            ELSE 0]

\* The panel holds the default expert of every slot the plan leaves free.
DefaultsFill(plan, k) ==
    \A slot \in (1..k) \ { plan[i] : i \in DOMAIN plan } :
        experts[slot] = [src |-> "default", idx |-> slot, order |-> slot]

ExampleReceived ==
    (num_experts = 6 /\ RawOrders(raw_experts) = ExampleOrders) =>
        [i \in 1..6 |-> ReceivedOrder(i)] = <<3, 2, 4, 5, 1, 6>>

UserMessage ==
    [role |-> "user", status |-> "none", intent_draft |-> "none",
     clarification_answers |-> <<>>, content |-> "user_query"]

\* The message add_assistant_message_intent_draft appends.
DraftMessage(intent_draft) ==
    [role |-> "assistant", status |-> "clarification_pending",
     intent_draft |-> intent_draft, clarification_answers |-> <<>>,
     content |-> "none"]

\* An assistant message of an earlier, finished turn.
CompleteMessage ==
    [role |-> "assistant", status |-> "complete", intent_draft |-> "normalized",
     clarification_answers |-> <<[answers |-> 0, skip |-> TRUE]>>,
     content |-> "text"]

PendingStatuses == {"clarification_pending", "clarification_submitted"}

\* find_pending_intent_message: the last assistant message whose status is
\* in `statuses`, searched from the end; 0 stands for None.
RECURSIVE FindFrom(_, _, _)
FindFrom(msgs, idx, statuses) ==
    IF idx = 0 THEN 0
    ELSE IF msgs[idx].role = "assistant" /\ msgs[idx].status \in statuses THEN idx
    ELSE FindFrom(msgs, idx - 1, statuses)

find_pending_intent_message(exists, msgs) ==
    IF ~exists THEN 0 ELSE FindFrom(msgs, Len(msgs), PendingStatuses)

\* mark_pending_intent_submitted, for found # None.
MarkLastAssistant(msgs, payload) ==
    LET idx == FindFrom(msgs, Len(msgs), PendingStatuses \cup {"complete"})
    IN [msgs EXCEPT ![idx].status = "clarification_submitted",
                    ![idx].clarification_answers = <<payload>>]

mark_pending_intent_submitted(msgs, payload) ==
    LET idx == FindFrom(msgs, Len(msgs), PendingStatuses)
    IN [msgs EXCEPT ![idx].status = "clarification_submitted",
                    ![idx].clarification_answers = <<payload>>]

\* finalize_intent_message, for found # None.
FinalizeKeepsStatus(msgs, response) ==
    LET idx == FindFrom(msgs, Len(msgs), PendingStatuses)
    IN [msgs EXCEPT ![idx].content = response]

finalize_intent_message(msgs, response) ==
    LET idx == FindFrom(msgs, Len(msgs), PendingStatuses)
    IN [msgs EXCEPT ![idx].status = "complete", ![idx].content = response]

(***************************************************************************)
(* What the callers of query_model see                                     *)
(***************************************************************************)
NoContent == "None"

\* _safe_content(response): the content when it is a non-empty string.
safe_content(response) ==
    IF response.kind # "dict" THEN NoContent
    ELSE IF response.content \in {"null", "empty"} THEN NoContent
    ELSE response.content

\* `response and response.get("content")`
HasContent(response) ==
    response.kind = "dict" /\ response.content \notin {"null", "empty"}

\* Results of a call whose text is used as it is.
StageResults ==
    {NoneResult, ErrorDict(401), ContentDict("empty"), ContentDict("text")}

\* Results of a call whose text should hold a JSON object: "json" is text
\* that _extract_json parses, "text" is text it cannot parse.
JsonResults == StageResults \cup {ContentDict("json")}

\* Results where whitespace-only text matters (`not content.strip()`).
BlankResults == StageResults \cup {ContentDict("blank")}

\* _extract_json(content or "") yields a non-empty object.
Parsed(content) == content = "json"

Ev(type) == [type |-> type, order |-> 0]
ExpertEv(type, order) == [type |-> type, order |-> order]

(***************************************************************************)
(* main.send_message_stream and council.stage0_generate_intent_draft       *)
(***************************************************************************)
\* len(_intent_model_candidates(model_name)): the fallback list, with the
\* requested model moved to the front when it is one of them.
NumCandidates == 5

\* The handler body before the generator runs.
SendRequest ==
    /\ s_pc = "none"
    /\ IF ~conv_exists
          THEN /\ s_pc' = "rejected"                  \* HTTP 404
               /\ UNCHANGED is_first_message
          ELSE /\ s_pc' = "accepted"
               /\ is_first_message' = (messages = <<>>)
    /\ UNCHANGED <<events1, candidate, draft_step, intent_response,
                   display_response, draft_outcome>>
    /\ UNCHANGED <<qvars, dvars, stagevars, gvars, fvars, pvars, stvars, cvars>>

\* `except Exception as e: yield error`
SendError(outcome) ==
    /\ events1' = Append(events1, Ev("error"))
    /\ s_pc' = "failed"
    /\ draft_outcome' = outcome
    /\ UNCHANGED messages

\* stage0_generate_intent_draft has returned or raised: its locals are gone.
DraftLocalsDropped ==
    /\ candidate' = 0
    /\ draft_step' = "idle"
    /\ intent_response' = Pending
    /\ display_response' = Pending

\* event_generator up to the first await.
SendStart ==
    /\ s_pc = "accepted"
    /\ IF ~conv_exists
          THEN \* add_user_message raises ValueError
               /\ SendError("not_started")
               /\ UNCHANGED <<candidate, draft_step>>
          ELSE /\ messages' = Append(messages, UserMessage)
               /\ events1' = Append(events1, Ev("intent_draft_start"))
               /\ s_pc' = "draft"
               /\ candidate' = 1
               /\ draft_step' = "intent"
               /\ draft_outcome' = "pending"
    /\ UNCHANGED <<conv_exists, is_first_message, intent_response, display_response>>
    /\ UNCHANGED <<qvars, dvars, stagevars, gvars, fvars, pvars, cvars>>

\* The statements after `intent_draft = await ...` returns normally.
StoreDraft ==
    IF ~conv_exists
       THEN \* add_assistant_message_intent_draft raises ValueError
            SendError("normalized")
       ELSE /\ messages' = Append(messages, DraftMessage("normalized"))
            /\ draft_outcome' = "normalized"
            /\ IF is_first_message
                  THEN /\ events1' = events1 \o <<Ev("intent_draft_complete"),
                                                  Ev("clarification_required")>>
                       /\ s_pc' = "title"
                  ELSE /\ events1' = events1 \o <<Ev("intent_draft_complete"),
                                                  Ev("clarification_required"),
                                                  Ev("complete")>>
                       /\ s_pc' = "done"

\* stage0_generate_intent_draft from `if not parsed:` on, and its caller.
DraftFinish(parsed, display) ==
    /\ IF ~parsed THEN SendError("json_failed")             \* raise RuntimeError
       ELSE IF safe_content(display) = NoContent
          THEN SendError("display_failed")                  \* raise RuntimeError
       ELSE StoreDraft
    /\ DraftLocalsDropped

\* After the candidate loop: parse the intent text, or go to the repair
\* cascade when there is text that does not parse.
AfterLoop(intent, display) ==
    LET intent_content == safe_content(intent)
    IN IF ~Parsed(intent_content) /\ intent_content # NoContent
          THEN /\ s_pc' = "draft_repair"
               /\ candidate' = 1
               /\ draft_step' = "repair"
               /\ display_response' = display
               /\ UNCHANGED <<events1, draft_outcome, messages, intent_response>>
          ELSE DraftFinish(Parsed(intent_content), display)

\* Loop body, first half: the intent JSON call for this candidate.
DraftIntent ==
    /\ s_pc = "draft"
    /\ draft_step = "intent"
    /\ IF HasContent(intent_response)
          THEN UNCHANGED intent_response
          ELSE \E r \in JsonResults : intent_response' = r
    /\ draft_step' = "display"
    /\ UNCHANGED <<s_pc, events1, is_first_message, candidate, display_response,
                   draft_outcome>>
    /\ UNCHANGED <<qvars, dvars, stagevars, gvars, fvars, pvars, stvars, cvars>>

\* Loop body, second half: the display call, the `break`, the next
\* candidate or the end of the loop.
DraftDisplay ==
    /\ s_pc = "draft"
    /\ draft_step = "display"
    /\ \E r \in StageResults :
          LET display == IF HasContent(display_response) THEN display_response ELSE r
          IN IF (HasContent(intent_response) /\ HasContent(display))
                   \/ candidate = NumCandidates
                THEN AfterLoop(intent_response, display)
                ELSE /\ display_response' = display
                     /\ candidate' = candidate + 1
                     /\ draft_step' = "intent"
                     /\ UNCHANGED <<s_pc, events1, draft_outcome, messages,
                                    intent_response>>
    /\ UNCHANGED <<conv_exists, is_first_message>>
    /\ UNCHANGED <<qvars, dvars, stagevars, gvars, fvars, pvars, cvars>>

\* _repair_intent_json: one repair call per candidate until one parses.
DraftRepair ==
    /\ s_pc = "draft_repair"
    /\ \E r \in JsonResults :
          IF Parsed(safe_content(r))
             THEN DraftFinish(TRUE, display_response)
          ELSE IF candidate < NumCandidates
             THEN /\ candidate' = candidate + 1
                  /\ UNCHANGED <<s_pc, events1, draft_outcome, messages, draft_step,
                                 intent_response, display_response>>
          ELSE DraftFinish(FALSE, display_response)
    /\ UNCHANGED <<conv_exists, is_first_message>>
    /\ UNCHANGED <<qvars, dvars, stagevars, gvars, fvars, pvars, cvars>>

\* asyncio.wait_for(..., timeout=90.0) raises TimeoutError at an await.
DraftTimeout ==
    /\ s_pc \in {"draft", "draft_repair"}
    /\ SendError("timeout")
    /\ DraftLocalsDropped
    /\ UNCHANGED <<conv_exists, is_first_message>>
    /\ UNCHANGED <<qvars, dvars, stagevars, gvars, fvars, pvars, cvars>>

\* `title = await title_task` and the rest of the generator.
TitleReturn ==
    /\ s_pc = "title"
    /\ IF ~conv_exists
          THEN \* update_conversation_title raises ValueError
               /\ events1' = Append(events1, Ev("error"))
               /\ s_pc' = "failed"
          ELSE /\ events1' = events1 \o <<Ev("title_complete"), Ev("complete")>>
               /\ s_pc' = "done"
    /\ UNCHANGED <<is_first_message, candidate, draft_step, intent_response,
                   display_response, draft_outcome>>
    /\ UNCHANGED <<qvars, dvars, stagevars, gvars, fvars, pvars, stvars, cvars>>

SendRun ==
    \/ SendStart
    \/ DraftIntent
    \/ DraftDisplay
    \/ DraftRepair
    \/ TitleReturn

(***************************************************************************)
(* main.continue_message_stream and the stages it drives                   *)
(***************************************************************************)
\* Largest number of clarification answers a continue request carries.
MaxAnswers == 1

\* Panel size of the turn.  continue_message_stream passes
\* num_experts = DEFAULT_NUM_EXPERTS; the stages take it as a parameter and
\* the turn is explored for panels of this size.
TurnExperts == 3

\* data["experts"] lists the synthesis call is given in a turn: none, the
\* example of the specification, two entries claiming the same order.
RawSamples ==
    { <<>>,
      [i \in 1..Len(ExampleOrders) |-> [order |-> ExampleOrders[i]]],
      <<[order |-> OrderInt(2)], [order |-> OrderInt(2)]>> }

\* The handler body before the generator runs: 404, 400 or the request is
\* accepted with the pending message it found.
ContRequest ==
    /\ c_pc \in {"none", "rejected"}
    /\ \E n \in 0..MaxAnswers, sk \in BOOLEAN :
          LET idx == find_pending_intent_message(conv_exists, messages)
          IN IF ~conv_exists \/ idx = 0 \/ idx = 1
                THEN /\ c_pc' = "rejected"
                     /\ UNCHANGED <<clarification_payload, pending_index>>
                ELSE /\ c_pc' = "accepted"
                     /\ pending_index' = idx
                     /\ clarification_payload' = [answers |-> n, skip |-> sk]
    /\ UNCHANGED <<events2, finalize_call, intent_analysis, expert_i, prior_work,
                   contributions, verification_data, synthesis_plan,
                   editorial_guidelines, stage3_result, storage_error>>
    /\ UNCHANGED <<qvars, dvars, stagevars, gvars, fvars, pvars, stvars, svars>>

\* event_generator up to the first await: the pending message is marked
\* submitted and stage0_finalize_intent is called.
ContStart ==
    /\ c_pc = "accepted"
    /\ IF find_pending_intent_message(conv_exists, messages) = 0
          THEN \* mark_pending_intent_submitted raises ValueError
               /\ events2' = Append(events2, Ev("error"))
               /\ c_pc' = "failed"
               /\ storage_error' = "mark"
               /\ UNCHANGED <<messages, finalize_call>>
          ELSE /\ messages' = mark_pending_intent_submitted(messages, clarification_payload)
               /\ events2' = Append(events2, Ev("stage0_start"))
               /\ c_pc' = "stage0"
               /\ finalize_call' = 1
               /\ UNCHANGED storage_error
    /\ UNCHANGED <<conv_exists, clarification_payload, pending_index, intent_analysis,
                   expert_i, prior_work, contributions, verification_data,
                   synthesis_plan, editorial_guidelines, stage3_result>>
    /\ UNCHANGED <<qvars, dvars, stagevars, gvars, fvars, pvars, svars>>

\* One call of stage0_finalize_intent: call 1 with the reasoning payload,
\* call 2 without it, then one call per fallback candidate other than the
\* analysis model (4 or 5 of them); the first content that is not blank is
\* returned, the placeholder when there is none.
FinalizeIntentCall ==
    /\ c_pc = "stage0"
    /\ \E r \in BlankResults, fallbacks \in {NumCandidates - 1, NumCandidates} :
          IF safe_content(r) \notin {NoContent, "blank"}
             THEN /\ intent_analysis' = safe_content(r)
                  /\ events2' = events2 \o <<Ev("stage0_complete"), Ev("brainstorm_start")>>
                  /\ c_pc' = "brainstorm"
                  /\ UNCHANGED finalize_call
          ELSE IF finalize_call < 2 + fallbacks
             THEN /\ finalize_call' = finalize_call + 1
                  /\ UNCHANGED <<intent_analysis, events2, c_pc>>
          ELSE /\ intent_analysis' = "Intent analysis unavailable."
               /\ events2' = events2 \o <<Ev("stage0_complete"), Ev("brainstorm_start")>>
               /\ c_pc' = "brainstorm"
               /\ UNCHANGED finalize_call
    /\ UNCHANGED <<clarification_payload, pending_index, expert_i, prior_work,
                   contributions, verification_data, synthesis_plan,
                   editorial_guidelines, stage3_result, storage_error>>
    /\ UNCHANGED <<qvars, dvars, stagevars, gvars, fvars, pvars, stvars, svars>>

\* contributions.append(entry)
PrependEntry(list, entry) == <<entry>> \o list
AppendEntry(list, entry) == Append(list, entry)

\* get_expert_contribution's result for a gateway response.
ExpertContribution(r) ==
    IF safe_content(r) = NoContent
       THEN "Expert contribution unavailable."
       ELSE r.content

\* What stage_brainstorm_experts(..., num_experts) returns in the turn: the
\* panel for each outcome of its synthesis call (data["experts"] is read
\* only when the reply parsed).
TurnPanels ==
    { brainstorm_experts(outcome, raw, TurnExperts) :
        <<outcome, raw>> \in
            { pair \in SynthesisOutcomes \X RawSamples :
                pair[1] = "parsed" \/ pair[2] = <<>> } }

\* The events between one await of the contribution loop and the next.
AfterEntry(team, i, order) ==
    IF i < Len(team)
       THEN <<ExpertEv("expert_complete", order),
              ExpertEv("expert_start", team[i + 1].order)>>
       ELSE <<ExpertEv("expert_complete", order),
              Ev("contributions_complete"), Ev("verification_start")>>

\* stage_brainstorm_experts returns; the contribution loop starts and the
\* first expert's call is issued with the (empty) contributions list.
BrainstormReturn ==
    /\ c_pc = "brainstorm"
    /\ \E team \in TurnPanels :
          /\ experts' = team
          /\ IF team = <<>>
                THEN /\ events2' = events2 \o
                          <<Ev("brainstorm_complete"), Ev("contributions_start"),
                            Ev("contributions_complete"), Ev("verification_start")>>
                     /\ c_pc' = "verification"
                     /\ expert_i' = 0
                ELSE /\ events2' = events2 \o
                          <<Ev("brainstorm_complete"), Ev("contributions_start"),
                            ExpertEv("expert_start", team[1].order)>>
                     /\ c_pc' = "expert"
                     /\ expert_i' = 1
    /\ contributions' = <<>>
    /\ prior_work' = <<>>
    /\ UNCHANGED <<clarification_payload, pending_index, finalize_call, intent_analysis,
                   verification_data, synthesis_plan, editorial_guidelines,
                   stage3_result, storage_error>>
    /\ UNCHANGED <<p_pc, num_experts, raw_experts, synthesis>>
    /\ UNCHANGED <<qvars, dvars, stagevars, gvars, fvars, stvars, svars>>

\* get_expert_contribution returns for experts[expert_i]: the entry is
\* appended and the next expert's call is issued with the list as it is
\* then, or the loop ends and stage_verification is called.
ExpertReturn ==
    /\ c_pc = "expert"
    /\ \E r \in StageResults :
          LET expert == experts[expert_i]
              entry == [order |-> expert.order, expert |-> expert,
                        contribution |-> ExpertContribution(r)]
          IN /\ contributions' = AppendEntry(contributions, entry)
             /\ events2' = events2 \o AfterEntry(experts, expert_i, expert.order)
             /\ IF expert_i < Len(experts)
                   THEN /\ expert_i' = expert_i + 1
                        /\ prior_work' = contributions'
                        /\ UNCHANGED c_pc
                   ELSE /\ c_pc' = "verification"
                        /\ UNCHANGED <<expert_i, prior_work>>
    /\ UNCHANGED <<clarification_payload, pending_index, finalize_call, intent_analysis,
                   verification_data, synthesis_plan, editorial_guidelines,
                   stage3_result, storage_error>>
    /\ UNCHANGED <<qvars, dvars, stagevars, gvars, fvars, pvars, stvars, svars>>

\* The text a single-call stage returns: the content, or its placeholder.
StageText(r, placeholder) ==
    IF safe_content(r) = NoContent THEN placeholder ELSE r.content

\* stage_verification returns its report (the report-assembly call's text
\* or the placeholder; the search sub-pipeline never raises).
VerificationReturn ==
    /\ c_pc = "verification"
    /\ \E r \in StageResults :
          verification_data' = StageText(r, "Verification unavailable.")
    /\ events2' = events2 \o <<Ev("verification_complete"), Ev("planning_start")>>
    /\ c_pc' = "planning"
    /\ UNCHANGED <<clarification_payload, pending_index, finalize_call, intent_analysis,
                   expert_i, prior_work, contributions, synthesis_plan,
                   editorial_guidelines, stage3_result, storage_error>>
    /\ UNCHANGED <<qvars, dvars, stagevars, gvars, fvars, pvars, stvars, svars>>

PlanningReturn ==
    /\ c_pc = "planning"
    /\ \E r \in StageResults :
          synthesis_plan' = StageText(r, "Planning unavailable.")
    /\ events2' = events2 \o <<Ev("planning_complete"), Ev("editorial_start")>>
    /\ c_pc' = "editorial"
    /\ UNCHANGED <<clarification_payload, pending_index, finalize_call, intent_analysis,
                   expert_i, prior_work, contributions, verification_data,
                   editorial_guidelines, stage3_result, storage_error>>
    /\ UNCHANGED <<qvars, dvars, stagevars, gvars, fvars, pvars, stvars, svars>>

\* A stage that raises on an empty result instead of substituting.
EditorialRaises ==
    /\ c_pc = "editorial"
    /\ \E r \in StageResults :
          IF safe_content(r) = NoContent
             THEN /\ events2' = Append(events2, Ev("error"))
                  /\ c_pc' = "failed"
                  /\ UNCHANGED editorial_guidelines
             ELSE /\ editorial_guidelines' = r.content
                  /\ events2' = events2 \o <<Ev("editorial_complete"), Ev("stage3_start")>>
                  /\ c_pc' = "stage3"
    /\ UNCHANGED <<clarification_payload, pending_index, finalize_call, intent_analysis,
                   expert_i, prior_work, contributions, verification_data,
                   synthesis_plan, stage3_result, storage_error>>
    /\ UNCHANGED <<qvars, dvars, stagevars, gvars, fvars, pvars, stvars, svars>>

EditorialReturn ==
    /\ c_pc = "editorial"
    /\ \E r \in StageResults :
          editorial_guidelines' = StageText(r, "Editorial guidelines unavailable.")
    /\ events2' = events2 \o <<Ev("editorial_complete"), Ev("stage3_start")>>
    /\ c_pc' = "stage3"
    /\ UNCHANGED <<clarification_payload, pending_index, finalize_call, intent_analysis,
                   expert_i, prior_work, contributions, verification_data,
                   synthesis_plan, stage3_result, storage_error>>
    /\ UNCHANGED <<qvars, dvars, stagevars, gvars, fvars, pvars, stvars, svars>>

\* stage3_synthesize_final returns; the result is stored and the stream ends.
Stage3Return ==
    /\ c_pc = "stage3"
    /\ \E r \in StageResults :
          LET response == StageText(r, "Error: Synthesis failed.")
          IN /\ stage3_result' = response
             /\ IF find_pending_intent_message(conv_exists, messages) = 0
                   THEN \* finalize_intent_message raises ValueError
                        /\ events2' = events2 \o <<Ev("stage3_complete"), Ev("error")>>
                        /\ c_pc' = "failed"
                        /\ storage_error' = "finalize"
                        /\ UNCHANGED messages
                   ELSE /\ messages' = finalize_intent_message(messages, response)
                        /\ events2' = events2 \o <<Ev("stage3_complete"), Ev("complete")>>
                        /\ c_pc' = "done"
                        /\ UNCHANGED storage_error
    /\ UNCHANGED <<conv_exists, clarification_payload, pending_index, finalize_call,
                   intent_analysis, expert_i, prior_work, contributions,
                   verification_data, synthesis_plan, editorial_guidelines>>
    /\ UNCHANGED <<qvars, dvars, stagevars, gvars, fvars, pvars, svars>>

ContinueRun ==
    \/ ContStart
    \/ FinalizeIntentCall
    \/ BrainstormReturn
    \/ ExpertReturn
    \/ VerificationReturn
    \/ PlanningReturn
    \/ EditorialReturn
    \/ Stage3Return

\* main.delete_conversation -> storage.delete_conversation
DeleteConversation ==
    /\ conv_exists
    /\ conv_exists' = FALSE
    /\ messages' = <<>>
    /\ UNCHANGED <<qvars, dvars, stagevars, gvars, fvars, pvars, svars, cvars>>

\* One user turn on a conversation that is new or holds a finished turn.
Init ==
    /\ IdleQuery
    /\ IdleData
    /\ IdleStage
    /\ p_pc = "idle"
    /\ num_experts = TurnExperts
    /\ raw_experts = <<>>
    /\ synthesis = "idle"
    /\ experts = <<>>
    /\ conv_exists = TRUE
    /\ messages \in {<<>>, <<UserMessage, CompleteMessage>>}
    /\ s_pc = "none"
    /\ events1 = <<>>
    /\ is_first_message = FALSE
    /\ candidate = 0
    /\ draft_step = "idle"
    /\ intent_response = Pending
    /\ display_response = Pending
    /\ draft_outcome = "idle"
    /\ c_pc = "none"
    /\ events2 = <<>>
    /\ clarification_payload = [answers |-> 0, skip |-> FALSE]
    /\ pending_index = 0
    /\ finalize_call = 0
    /\ intent_analysis = "unset"
    /\ expert_i = 0
    /\ prior_work = <<>>
    /\ contributions = <<>>
    /\ verification_data = "unset"
    /\ synthesis_plan = "unset"
    /\ editorial_guidelines = "unset"
    /\ stage3_result = "unset"
    /\ storage_error = "none"
    /\ IdleGate
    /\ IdleHelper

Next ==
    \/ SendRequest
    \/ SendRun
    \/ DraftTimeout
    \/ ContRequest
    \/ ContinueRun
    \/ DeleteConversation

Spec == Init /\ [][Next]_vars

\* Every gateway call returns and the event loop keeps running both
\* generators; requests and deletions are up to the client.

\* The continuation alone: the first stream of the turn has ended with the
\* draft stored (send_message_stream's last statements, not a first message).
InitContinue ==
    /\ IdleQuery
    /\ IdleData
    /\ IdleStage
    /\ p_pc = "idle"
    /\ num_experts = TurnExperts
    /\ raw_experts = <<>>
    /\ synthesis = "idle"
    /\ experts = <<>>
    /\ conv_exists = TRUE
    /\ messages = <<UserMessage, CompleteMessage, UserMessage,
                    DraftMessage("normalized")>>
    /\ s_pc = "done"
    /\ events1 = <<Ev("intent_draft_start"), Ev("intent_draft_complete"),
                   Ev("clarification_required"), Ev("complete")>>
    /\ is_first_message = FALSE
    /\ candidate = 0
    /\ draft_step = "idle"
    /\ intent_response = Pending
    /\ display_response = Pending
    /\ draft_outcome = "normalized"
    /\ c_pc = "none"
    /\ events2 = <<>>
    /\ clarification_payload = [answers |-> 0, skip |-> FALSE]
    /\ pending_index = 0
    /\ finalize_call = 0
    /\ intent_analysis = "unset"
    /\ expert_i = 0
    /\ prior_work = <<>>
    /\ contributions = <<>>
    /\ verification_data = "unset"
    /\ synthesis_plan = "unset"
    /\ editorial_guidelines = "unset"
    /\ stage3_result = "unset"
    /\ storage_error = "none"
    /\ IdleGate
    /\ IdleHelper

NextContinue ==
    \/ ContRequest
    \/ ContinueRun
    \/ DeleteConversation

SpecContinue == InitContinue /\ [][NextContinue]_vars

\* Every await of the generator returns: the stages' calls are bounded by
\* query_model's retry loop and its request timeout.
FairSpecContinue == SpecContinue /\ WF_vars(ContinueRun)

(***************************************************************************)
(* Several continue requests on one conversation (main.py, storage.py)     *)
(***************************************************************************)
\* The handler body of continue_message_stream for request r.
GateRequest(r) ==
    /\ g_pc[r] = "none"
    /\ \E n \in 0..MaxAnswers, sk \in BOOLEAN :
          LET idx == find_pending_intent_message(conv_exists, messages)
          IN IF ~conv_exists \/ idx = 0 \/ idx = 1
                THEN /\ g_pc' = [g_pc EXCEPT ![r] = "rejected"]   \* HTTP 404 / 400
                     /\ UNCHANGED <<g_payload, g_pending>>
                ELSE /\ g_pc' = [g_pc EXCEPT ![r] = "accepted"]
                     /\ g_pending' = [g_pending EXCEPT
                            ![r] = [index |-> idx, status |-> messages[idx].status]]
                     /\ g_payload' = [g_payload EXCEPT
                            ![r] = [answers |-> n, skip |-> sk]]
    /\ UNCHANGED <<g_events, stvars>>
    /\ UNCHANGED <<qvars, dvars, stagevars, pvars, svars, cvars, fvars>>

\* event_generator of request r up to its first await.
GateStart(r) ==
    /\ g_pc[r] = "accepted"
    /\ IF find_pending_intent_message(conv_exists, messages) = 0
          THEN \* mark_pending_intent_submitted raises ValueError
               /\ g_events' = [g_events EXCEPT ![r] = Append(@, "error")]
               /\ g_pc' = [g_pc EXCEPT ![r] = "failed"]
               /\ UNCHANGED messages
          ELSE /\ messages' = mark_pending_intent_submitted(messages, g_payload[r])
               /\ g_events' = [g_events EXCEPT ![r] = Append(@, "stage0_start")]
               /\ g_pc' = [g_pc EXCEPT ![r] = "running"]
    /\ UNCHANGED <<conv_exists, g_payload, g_pending>>
    /\ UNCHANGED <<qvars, dvars, stagevars, pvars, svars, cvars, fvars>>

\* The stages of request r have returned (every stage substitutes its
\* placeholder); the result is stored and the stream ends.
GateFinish(r) ==
    /\ g_pc[r] = "running"
    /\ \E response \in {"text", "Error: Synthesis failed."} :
          IF find_pending_intent_message(conv_exists, messages) = 0
             THEN \* finalize_intent_message raises ValueError
                  /\ g_events' = [g_events EXCEPT
                         ![r] = @ \o <<"stage3_complete", "error">>]
                  /\ g_pc' = [g_pc EXCEPT ![r] = "failed"]
                  /\ UNCHANGED messages
             ELSE /\ messages' = finalize_intent_message(messages, response)
                  /\ g_events' = [g_events EXCEPT
                         ![r] = @ \o <<"stage3_complete", "complete">>]
                  /\ g_pc' = [g_pc EXCEPT ![r] = "done"]
    /\ UNCHANGED <<conv_exists, g_payload, g_pending>>
    /\ UNCHANGED <<qvars, dvars, stagevars, pvars, svars, cvars, fvars>>

\* The conversation holds one turn whose draft awaits clarification; the
\* requests have not been sent.
InitGate ==
    /\ IdleQuery
    /\ IdleData
    /\ IdleStage
    /\ IdlePanel
    /\ IdleStreams
    /\ conv_exists = TRUE
    /\ messages = <<UserMessage, DraftMessage("normalized")>>
    /\ g_pc = [r \in Requests |-> "none"]
    /\ g_payload = [r \in Requests |-> [answers |-> 0, skip |-> FALSE]]
    /\ g_pending = [r \in Requests |-> [index |-> 0, status |-> "none"]]
    /\ g_events = [r \in Requests |-> <<>>]
    /\ IdleHelper

NextGate ==
    \/ \E r \in Requests : GateRequest(r)
    \/ \E r \in Requests : GateStart(r)
    \/ \E r \in Requests : GateFinish(r)
    \/ DeleteConversation

SpecGate == InitGate /\ [][NextGate]_vars

(***************************************************************************)
(* Claims about one user turn                                              *)
(***************************************************************************)
Emitted(events, type) == \E i \in 1..Len(events) : events[i].type = type

LastIs(events, type) == events # <<>> /\ events[Len(events)].type = type

\* The stage events of a continuation stream for a panel of k, in the
\* order continue_message_stream yields them.
RunOrder(k) ==
    <<Ev("stage0_start"), Ev("stage0_complete"),
      Ev("brainstorm_start"), Ev("brainstorm_complete"),
      Ev("contributions_start")>>
    \o [j \in 1..(2 * k) |->
            IF j % 2 = 1 THEN ExpertEv("expert_start", (j + 1) \div 2)
                         ELSE ExpertEv("expert_complete", j \div 2)]
    \o <<Ev("contributions_complete"),
         Ev("verification_start"), Ev("verification_complete"),
         Ev("planning_start"), Ev("planning_complete"),
         Ev("editorial_start"), Ev("editorial_complete"),
         Ev("stage3_start"), Ev("stage3_complete"), Ev("complete")>>

\* The stream without a closing error event.
BeforeError(events) ==
    IF LastIs(events, "error") THEN SubSeq(events, 1, Len(events) - 1) ELSE events

Started == Emitted(events2, "stage0_start")

PendingStored ==
    /\ conv_exists
    /\ pending_index \in 1..Len(messages)

C1_StageOrder == IsPrefix(BeforeError(events2), RunOrder(num_experts))

C1_CompleteAfterPersist ==
    (LastIs(events2', "complete") /\ ~LastIs(events2, "complete")) =>
        /\ Emitted(events2', "stage3_complete")
        /\ pending_index \in 1..Len(messages')
        /\ messages'[pending_index].status = "complete"
        /\ messages'[pending_index].content = stage3_result'

\* C1: the continuation stream is a prefix of the fixed stage order (every
\* start after the previous complete, nothing skipped or repeated),
\* possibly closed by one error event with nothing after it; and `complete`
\* is emitted only in a step that has emitted stage3_complete and stored
\* the result with status complete.
C1_OrderedStages == []C1_StageOrder /\ [][C1_CompleteAfterPersist]_vars

C1_Witness ==
    /\ c_pc = "done"
    /\ events2 = RunOrder(num_experts)
    /\ PendingStored
    /\ messages[pending_index].status = "complete"

\* The entry the i-th expert of the panel leaves in the list.
IsEntryOf(entry, i) ==
    /\ entry.expert = experts[i]
    /\ entry.order = i
    /\ entry.contribution \in {"text", "Expert contribution unavailable."}

ContributionsFinished ==
    c_pc \in {"verification", "planning", "editorial", "stage3", "done"}

C2_ReadsPredecessors ==
    /\ c_pc = "expert" =>
          /\ Len(prior_work) = expert_i - 1
          /\ \A j \in 1..Len(prior_work) : IsEntryOf(prior_work[j], j)
    /\ ContributionsFinished =>
          /\ Len(contributions) = num_experts
          /\ \A j \in 1..Len(contributions) : contributions[j].order = j

C2_AppendOnly == IsPrefix(contributions, contributions')

\* C2: the call for the i-th expert reads exactly the entries of experts
\* 1..i-1 in panel order; an appended entry is never changed, removed or
\* moved; the finished list has K entries with orders 1..K ascending.
C2_SequentialContributions == []C2_ReadsPredecessors /\ [][C2_AppendOnly]_vars

C2_Witness ==
    /\ c_pc = "expert"
    /\ expert_i = num_experts
    /\ Len(prior_work) = num_experts - 1
    /\ prior_work[1].contribution = "Expert contribution unavailable."
    /\ \A j \in 1..Len(prior_work) : IsEntryOf(prior_work[j], j)

\* The continuation stream ends by an error only when a storage call raised.
C4_ErrorOnlyFromStorage == Emitted(events2, "error") => storage_error # "none"

\* What a completed stage hands on is its text or its placeholder or
\* default, never an empty result.
C4_Substituted ==
    /\ Emitted(events2, "stage0_complete") =>
          intent_analysis \in {"text", "Intent analysis unavailable."}
    /\ Emitted(events2, "brainstorm_complete") => Len(experts) = num_experts
    /\ Emitted(events2, "contributions_complete") =>
          /\ Len(contributions) = num_experts
          /\ \A j \in 1..Len(contributions) :
                contributions[j].contribution \in
                    {"text", "Expert contribution unavailable."}
    /\ Emitted(events2, "verification_complete") =>
          verification_data \in {"text", "Verification unavailable."}
    /\ Emitted(events2, "planning_complete") =>
          synthesis_plan \in {"text", "Planning unavailable."}
    /\ Emitted(events2, "editorial_complete") =>
          editorial_guidelines \in {"text", "Editorial guidelines unavailable."}

C4_ArtifactReached ==
    /\ Emitted(events2, "stage3_complete")
    /\ stage3_result # "unset"
    /\ LastIs(events2, "complete") \/ storage_error = "finalize"

\* C4: once the continuation has started, no failed or empty result of
\* intent finalization, panel formation, a contribution, verification,
\* planning or editorial guidelines ends the run: it emits stage3_complete
\* with a final artifact and then complete (the stream can still end by an
\* error when storing the result raises).
C4_DegradedStagesContinue ==
    /\ []C4_ErrorOnlyFromStorage
    /\ []C4_Substituted
    /\ Started ~> C4_ArtifactReached

\* Every stage before the final synthesis degraded and the run completed.
C4_Witness ==
    /\ c_pc = "done"
    /\ LastIs(events2, "complete")
    /\ intent_analysis = "Intent analysis unavailable."
    /\ experts = build_default_experts(num_experts)
    /\ \A j \in 1..Len(contributions) :
          contributions[j].contribution = "Expert contribution unavailable."
    /\ Len(contributions) = num_experts
    /\ verification_data = "Verification unavailable."
    /\ synthesis_plan = "Planning unavailable."
    /\ editorial_guidelines = "Editorial guidelines unavailable."
    /\ stage3_result = "text"

SynthesisFailed == stage3_result = "Error: Synthesis failed."

\* C5 (as claimed): when the final synthesis call yields no content the
\* stream ends by an error event, no complete event is emitted and the
\* assistant message is not stored with status complete.
C5_SynthesisFailureIsFatal ==
    (c_pc \in {"done", "failed"} /\ SynthesisFailed) =>
        /\ LastIs(events2, "error")
        /\ ~Emitted(events2, "complete")
        /\ ~(PendingStored /\ messages[pending_index].status = "complete")

\* The state C5 fails in: the placeholder was stored as a complete answer.
C5_Witness ==
    /\ c_pc = "done"
    /\ SynthesisFailed
    /\ LastIs(events2, "complete")
    /\ PendingStored
    /\ messages[pending_index].status = "complete"
    /\ messages[pending_index].content = "Error: Synthesis failed."

\* C6 (as claimed): when no candidate yields a usable analysis object the
\* intent-draft stage still returns a (fallback) draft, and the first
\* stream emits intent_draft_complete and clarification_required and no
\* error.
C6_DraftNeverFails ==
    draft_outcome = "json_failed" =>
        /\ Emitted(events1, "intent_draft_complete")
        /\ Emitted(events1, "clarification_required")
        /\ ~Emitted(events1, "error")

\* The state C6 fails in: the stage raised and the stream ended by error.
C6_Witness ==
    /\ draft_outcome = "json_failed"
    /\ conv_exists
    /\ s_pc = "failed"
    /\ events1 = <<Ev("intent_draft_start"), Ev("error")>>

\* C7 (as claimed): the continuation pipeline starts only for a continue
\* request that carries at least one answer or sets skip.
C7_ResumeNeedsAnswersOrSkip ==
    Started => (clarification_payload.answers >= 1 \/ clarification_payload.skip)

\* The state C7 fails in: an empty request with skip = false resumed the run.
C7_Witness ==
    /\ Started
    /\ clarification_payload = [answers |-> 0, skip |-> FALSE]
    /\ Emitted(events2, "stage3_complete")

\* The result query_model returns for a 401/403.
IsAuthError(response) ==
    response.kind = "dict" /\ response.error /\ response.status_code \in {401, 403}

\* The intent-draft stage holds an authorization failure of the gateway.
AuthFailureReceived == IsAuthError(intent_response) \/ IsAuthError(display_response)

\* C12 (as claimed): an authorization failure returned by the gateway is
\* run-fatal: a stream that has received one has ended with an error; it
\* is not awaiting a further gateway call (a cascade to another candidate)
\* and has emitted no draft and no complete event.
C12_AuthIsRunFatal ==
    AuthFailureReceived =>
        /\ s_pc = "failed"
        /\ ~Emitted(events1, "intent_draft_complete")
        /\ ~Emitted(events1, "complete")

\* The state C12 fails in: the first candidate's calls came back with 401,
\* the loop has moved on to the second candidate and its intent call is
\* in flight.
C12_Witness ==
    /\ s_pc = "draft"
    /\ candidate = 2
    /\ draft_step = "intent"
    /\ intent_response = ErrorDict(401)
    /\ display_response = ErrorDict(401)
    /\ events1 = <<Ev("intent_draft_start")>>

(***************************************************************************)
(* Claims about the clarification gate                                     *)
(***************************************************************************)
\* The requests whose continuation pipeline has started.
StartedRequests == {r \in Requests : g_events[r] # <<>> /\ g_events[r][1] = "stage0_start"}

\* C8 (as claimed): the answers for one intent draft are consumed exactly
\* once: the continuation pipeline starts for at most one continue request
\* per pending draft, and a request that finds the draft already submitted
\* is rejected.
C8_AnswersConsumedOnce ==
    /\ Cardinality(StartedRequests) <= 1
    /\ \A r \in Requests :
          g_pc[r] \in {"accepted", "running", "done", "failed"} =>
              g_pending[r].status = "clarification_pending"

\* The state C8 fails in: a request that found the draft already submitted
\* was accepted and started the pipeline a second time, replacing the
\* stored answers of the first.
C8_Witness ==
    /\ Cardinality(StartedRequests) = 2
    /\ \E r \in Requests : g_pending[r].status = "clarification_submitted"
    /\ conv_exists
    /\ messages[2].status = "clarification_submitted"

(***************************************************************************)
(* council._extract_json and council._extract_json_array                   *)
(***************************************************************************)
\* Text is a sequence of characters.  "x" stands for any character that is
\* not one of the others (letters, digits, colons, blanks).
LBrace == "{"
RBrace == "}"
LBracket == "["
RBracket == "]"
Quote == "\""
Backslash == "\\"
Comma == ","
Letter == "x"

Alphabet == {LBrace, RBrace, LBracket, RBracket, Quote, Backslash, Comma, Letter}

\* json.loads as a recognizer.  Each operator takes the position a
\* construct starts at and yields the position after it, 0 on a syntax
\* error.  An object's `"key":` prefixes are left out of the grammar:
\*   value  ::= string | atom | "{" [value {"," value}] "}"
\*                            | "[" [value {"," value}] "]"
\*   string ::= '"' { char | '\"' | '\\' } '"'        atom ::= "x" {"x"}
RECURSIVE StringEnd(_, _)
StringEnd(t, i) ==
    IF i > Len(t) THEN 0
    ELSE IF t[i] = Quote THEN i + 1
    ELSE IF t[i] = Backslash
       THEN IF i + 1 <= Len(t) /\ t[i + 1] \in {Quote, Backslash}
               THEN StringEnd(t, i + 2)
               ELSE 0
    ELSE StringEnd(t, i + 1)

RECURSIVE AtomEnd(_, _)
AtomEnd(t, i) ==
    IF i <= Len(t) /\ t[i] = Letter THEN AtomEnd(t, i + 1) ELSE i

RECURSIVE ValueEnd(_, _)
RECURSIVE MembersEnd(_, _, _)
ValueEnd(t, i) ==
    IF i > Len(t) THEN 0
    ELSE IF t[i] = Quote THEN StringEnd(t, i + 1)
    ELSE IF t[i] = Letter THEN AtomEnd(t, i + 1)
    ELSE IF t[i] = LBrace
       THEN IF i + 1 <= Len(t) /\ t[i + 1] = RBrace THEN i + 2
            ELSE MembersEnd(t, i + 1, RBrace)
    ELSE IF t[i] = LBracket
       THEN IF i + 1 <= Len(t) /\ t[i + 1] = RBracket THEN i + 2
            ELSE MembersEnd(t, i + 1, RBracket)
    ELSE 0

MembersEnd(t, i, close) ==
    LET j == ValueEnd(t, i)
    IN IF j = 0 \/ j > Len(t) THEN 0
       ELSE IF t[j] = close THEN j + 1
       ELSE IF t[j] = Comma THEN MembersEnd(t, j + 1, close)
       ELSE 0

\* The values the helpers return.
JsonNone == [kind |-> "None", span |-> <<>>]
JSONDecodeError == [kind |-> "JSONDecodeError", span |-> <<>>]

KindOf(char) ==
    IF char = LBrace THEN "object"
    ELSE IF char = LBracket THEN "array"
    ELSE IF char = Quote THEN "string"
    ELSE "atom"

\* json.loads(t): the parsed value, or JSONDecodeError is raised.
json_loads(t) ==
    IF t # <<>> /\ ValueEnd(t, 1) = Len(t) + 1
       THEN [kind |-> KindOf(t[1]), span |-> t]
       ELSE JSONDecodeError

\* text.find(char): the first position of char, 0 for -1.
RECURSIVE FindFromPos(_, _, _)
FindFromPos(t, char, i) ==
    IF i > Len(t) THEN 0
    ELSE IF t[i] = char THEN i
    ELSE FindFromPos(t, char, i + 1)

\* re.sub(r",\s*" + close, close, t): every comma that stands right before
\* `close` is removed.
RECURSIVE StripCommaBefore(_, _)
StripCommaBefore(t, close) ==
    IF t = <<>> THEN <<>>
    ELSE IF Len(t) >= 2 /\ t[1] = Comma /\ t[2] = close
       THEN <<close>> \o StripCommaBefore(SubSeq(t, 3, Len(t)), close)
    ELSE <<t[1]>> \o StripCommaBefore(Tail(t), close)

\* A scanning loop that counts every brace, inside strings too.
RECURSIVE ScanEveryBrace(_, _, _, _, _)
ScanEveryBrace(text, idx, depth, in_string, escape) ==
    IF idx > Len(text) THEN 0
    ELSE IF text[idx] = LBrace
       THEN ScanEveryBrace(text, idx + 1, depth + 1, in_string, escape)
    ELSE IF text[idx] = RBrace
       THEN IF depth - 1 = 0 THEN idx
            ELSE ScanEveryBrace(text, idx + 1, depth - 1, in_string, escape)
    ELSE ScanEveryBrace(text, idx + 1, depth, in_string, escape)

\* The scanning loop of _extract_json from position idx on: the position
\* of the closing brace that brings depth back to 0, or 0 when the loop
\* runs off the end of the text.
RECURSIVE ScanFrom(_, _, _, _, _)
ScanFrom(text, idx, depth, in_string, escape) ==
    IF idx > Len(text) THEN 0
    ELSE LET char == text[idx]
         IN IF in_string
               THEN IF escape THEN ScanFrom(text, idx + 1, depth, TRUE, FALSE)
                    ELSE IF char = Backslash THEN ScanFrom(text, idx + 1, depth, TRUE, TRUE)
                    ELSE IF char = Quote THEN ScanFrom(text, idx + 1, depth, FALSE, FALSE)
                    ELSE ScanFrom(text, idx + 1, depth, TRUE, FALSE)
            ELSE IF char = Quote THEN ScanFrom(text, idx + 1, depth, TRUE, escape)
            ELSE IF char = LBrace THEN ScanFrom(text, idx + 1, depth + 1, FALSE, escape)
            ELSE IF char = RBrace
               THEN IF depth - 1 = 0 THEN idx
                    ELSE ScanFrom(text, idx + 1, depth - 1, FALSE, escape)
            ELSE ScanFrom(text, idx + 1, depth, FALSE, escape)

\* The `for candidate in (...)` loop: the first candidate that parses.
FirstParsed(candidates) ==
    IF \E i \in 1..Len(candidates) : json_loads(candidates[i]) # JSONDecodeError
       THEN LET i == CHOOSE k \in 1..Len(candidates) :
                        /\ json_loads(candidates[k]) # JSONDecodeError
                        /\ \A m \in 1..(k - 1) : json_loads(candidates[m]) = JSONDecodeError
            IN json_loads(candidates[i])
       ELSE JsonNone

\* _extract_json with the comma repair applied to the text before anything
\* is parsed.
ExtractJsonEagerRepair(text) ==
    LET repaired == StripCommaBefore(text, RBrace)
    IN  IF text = <<>> THEN JsonNone
        ELSE IF json_loads(repaired) # JSONDecodeError THEN json_loads(repaired)
        ELSE LET start == FindFromPos(repaired, LBrace, 1)
                 end == IF start = 0 THEN 0
                        ELSE ScanFrom(repaired, start, 0, FALSE, FALSE)
             IN  IF end = 0 THEN JsonNone
                 ELSE FirstParsed(<<SubSeq(repaired, start, end),
                                    StripCommaBefore(SubSeq(repaired, start, end),
                                                     RBracket)>>)

extract_json(text) ==
    IF text = <<>> THEN JsonNone
    ELSE IF json_loads(text) # JSONDecodeError THEN json_loads(text)
    ELSE LET start == FindFromPos(text, LBrace, 1)
         IN IF start = 0 THEN JsonNone
            ELSE LET end == ScanFrom(text, start, 0, FALSE, FALSE)
                 IN IF end = 0 THEN JsonNone
                    ELSE LET payload == SubSeq(text, start, end)
                         IN FirstParsed(<<payload,
                                          StripCommaBefore(payload, RBrace),
                                          StripCommaBefore(payload, RBracket)>>)

\* re.search(r"\[[\s\S]*?\]", text): from the first "[" to the first "]"
\* after it; <<>> stands for no match.
FirstBracketSpan(text) ==
    LET start == FindFromPos(text, LBracket, 1)
    IN IF start = 0 THEN <<>>
       ELSE LET end == FindFromPos(text, RBracket, start + 1)
            IN IF end = 0 THEN <<>> ELSE SubSeq(text, start, end)

extract_json_array(text) ==
    IF text = <<>> THEN JsonNone
    ELSE LET payload == FirstBracketSpan(text)
         IN IF payload = <<>> THEN JsonNone
            ELSE IF json_loads(payload) # JSONDecodeError THEN json_loads(payload)
            ELSE FirstParsed(<<StripCommaBefore(
                                   StripCommaBefore(payload, RBracket), RBrace)>>)

\* Longest arbitrary text, and most items in a generated string value.
MaxText == 4
MaxStr == 2

\* Every text of at most n characters.
AllTexts(n) == UNION { [1..k -> Alphabet] : k \in 0..n }

\* What a quoted string value can hold: a character, a brace, an escaped
\* quote, an escaped backslash.
StrItems ==
    { <<Letter>>, <<LBrace>>, <<RBrace>>, <<Backslash, Quote>>, <<Backslash, Backslash>> }

RECURSIVE StrBodies(_)
StrBodies(n) ==
    IF n = 0 THEN { <<>> }
    ELSE StrBodies(n - 1) \cup { b \o item : b \in StrBodies(n - 1), item \in StrItems }

JsonStrings == { <<Quote>> \o b \o <<Quote>> : b \in StrBodies(MaxStr) }

\* Member values of a generated object: strings, an atom, nested objects
\* (one with a brace in a string), an array.
JsonValues ==
    JsonStrings \cup
    { <<Letter>>, <<LBrace, RBrace>>, <<LBrace, Quote, RBrace, Quote, RBrace>>,
      <<LBracket, Letter, RBracket>> }

JsonObjects ==
    { <<LBrace>> \o body \o <<RBrace>> :
        body \in { <<>> } \cup JsonValues \cup
                 { v \o <<Comma>> \o w :
                     v \in JsonValues, w \in { <<Letter>>, <<Quote, LBrace, Quote>> } } }

ProseBefore == { <<>>, <<Letter>>, <<Quote, Letter>> }
ProseAfter == { <<>>, <<Letter>>, <<RBrace>>, <<Letter, Quote, LBrace>> }

\* Target objects of the target-selection output format: without and with
\* a nested preferred_sources array.
TargetObjects ==
    { <<LBrace, Letter, RBrace>>,
      <<LBrace, Letter, Comma, LBracket, RBracket, RBrace>>,
      <<LBrace, Letter, Comma, LBracket, Quote, Letter, Quote, Comma,
        Quote, Letter, Quote, RBracket, RBrace>> }

TargetArrays ==
    { <<LBracket>> \o a \o <<RBracket>> : a \in TargetObjects }
    \cup { <<LBracket>> \o a \o <<Comma>> \o b \o <<RBracket>> :
             a \in TargetObjects, b \in TargetObjects }

\* Objects with a trailing comma before a closing bracket, before a closing
\* brace, or before both.
TrailingCommaTexts ==
    { <<LBrace>> \o inner \o last \o <<RBrace>> :
        inner \in { <<Letter>>,
                    <<LBracket, Letter, RBracket>>,
                    <<LBracket, Letter, Comma, RBracket>>,
                    <<LBrace, Letter, Comma, RBrace>>,
                    <<Quote, Comma, RBrace, Quote>>,
                    <<Quote, Comma, Comma, RBrace, Quote>> },
        last \in { <<>>, <<Comma>> } }

\* One call of _extract_json.
ExtractJson ==
    /\ fn_pc = "call"
    /\ fn_name = "_extract_json"
    /\ fn_out' = extract_json(fn_in)
    /\ fn_pc' = "done"
    /\ UNCHANGED <<fn_name, fn_in, fn_expect>>
    /\ UNCHANGED <<qvars, dvars, stagevars, pvars, stvars, svars, cvars, gvars>>

\* One call of _extract_json_array.
ExtractJsonArray ==
    /\ fn_pc = "call"
    /\ fn_name = "_extract_json_array"
    /\ fn_out' = extract_json_array(fn_in)
    /\ fn_pc' = "done"
    /\ UNCHANGED <<fn_name, fn_in, fn_expect>>
    /\ UNCHANGED <<qvars, dvars, stagevars, pvars, stvars, svars, cvars, gvars>>

\* The argument is any short text, or prose around one JSON object, or
\* prose around one array of target objects.
InitJson ==
    /\ IdleQuery
    /\ IdleData
    /\ IdleStage
    /\ IdlePanel
    /\ conv_exists = FALSE
    /\ messages = <<>>
    /\ IdleStreams
    /\ IdleGate
    /\ fn_pc = "call"
    /\ fn_out = <<>>
    /\ fn_name \in {"_extract_json", "_extract_json_array"}
    /\ \/ /\ fn_in \in AllTexts(MaxText)
          /\ fn_expect = <<>>
       \/ /\ fn_name = "_extract_json"
          /\ fn_expect \in JsonObjects
          /\ \E pre \in ProseBefore, post \in ProseAfter :
                fn_in = pre \o fn_expect \o post
       \/ /\ fn_name = "_extract_json_array"
          /\ fn_expect \in TargetArrays
          /\ \E pre \in {<<>>, <<Letter>>}, post \in {<<>>, <<Letter>>} :
                fn_in = pre \o fn_expect \o post
       \/ /\ fn_name = "_extract_json"
          /\ fn_expect = <<>>
          /\ \E body \in TrailingCommaTexts, pre \in {<<>>, <<Letter>>},
                post \in {<<>>, <<Letter>>} :
                fn_in = pre \o body \o post

NextJson == ExtractJson \/ ExtractJsonArray

SpecJson == InitJson /\ [][NextJson]_vars

(***************************************************************************)
(* Claims about the JSON recovery helpers                                  *)
(***************************************************************************)
JsonDone(name) == fn_pc = "done" /\ fn_name = name

\* The generated objects are what json.loads accepts as an object.
C14_InputsWellFormed ==
    (fn_name = "_extract_json" /\ fn_expect # <<>>) =>
        json_loads(fn_expect) = [kind |-> "object", span |-> fn_expect]

\* C14: for prose, one JSON object, prose, where the object's string values
\* may hold braces and escaped quotes, _extract_json returns that object.
C14_ObjectRecovered ==
    /\ C14_InputsWellFormed
    /\ (JsonDone("_extract_json") /\ fn_expect # <<>>) =>
          fn_out = [kind |-> "object", span |-> fn_expect]

\* `x {"}\"{", x} x"{`: an unbalanced brace and an escaped quote inside a
\* string value, prose on both sides.
C14_Witness ==
    /\ JsonDone("_extract_json")
    /\ fn_expect = <<LBrace, Quote, RBrace, Backslash, Quote, Quote, Comma,
                     Letter, RBrace>>
    /\ fn_in = <<Letter>> \o fn_expect \o <<Letter, Quote, LBrace>>
    /\ fn_out = [kind |-> "object", span |-> fn_expect]

\* C15 (as claimed): _extract_json never raises, and what it returns is a
\* parsed JSON object or None, never an array, a string or a number.
C15_ObjectOrNone ==
    JsonDone("_extract_json") => fn_out.kind \in {"object", "None"}

\* The state C15 fails in: the whole text is a JSON array and is returned.
C15_Witness ==
    /\ JsonDone("_extract_json")
    /\ fn_in = <<LBracket, Letter, RBracket>>
    /\ fn_out = [kind |-> "array", span |-> fn_in]

\* stage_verification keeps the dict elements of the returned list.
TargetsObtained(out, array) ==
    /\ out.kind = "array"
    /\ out.span = array
    /\ \E i \in 1..Len(out.span) : out.span[i] = LBrace

\* C16 (as claimed): from text that holds a well-formed JSON array of
\* target objects, with or without a nested preferred_sources array,
\* _extract_json_array returns the whole array, so stage_verification
\* obtains the targets.
C16_ArrayRecovered ==
    (JsonDone("_extract_json_array") /\ fn_expect # <<>>) =>
        TargetsObtained(fn_out, fn_expect)

\* The state C16 fails in: one target with a preferred_sources array; the
\* match ends at the nested "]" and the helper returns None.
C16_Witness ==
    /\ JsonDone("_extract_json_array")
    /\ fn_expect = <<LBracket, LBrace, Letter, Comma, LBracket, Quote, Letter, Quote,
                     Comma, Quote, Letter, Quote, RBracket, RBrace, RBracket>>
    /\ fn_in = fn_expect
    /\ json_loads(fn_expect).kind = "array"
    /\ fn_out = JsonNone

\* ======================================================================
\* council._normalize_intent_draft: the clarification questions
\* ======================================================================

\* A text is its words (lower-cased, single-spaced, trimmed) and how the
\* string differs from them: it holds capital letters, it has leading or
\* trailing blanks, it has a run of blanks between two words.
Text(words, caps, pad, gap) ==
    [words |-> words, caps |-> caps, pad |-> pad, gap |-> gap]

Exact(words)  == Text(words, FALSE, FALSE, FALSE)
Titled(words) == Text(words, TRUE, FALSE, FALSE)

\* str.lower() and str.strip(): neither touches blanks between words.
lower(text) == [text EXCEPT !.caps = FALSE]
strip(text) == [text EXCEPT !.pad = FALSE]

\* seq[:n]
Take(seq, n) == SubSeq(seq, 1, IF Len(seq) < n THEN Len(seq) ELSE n)

\* The literal "Other / I'll type it".
OtherOption == Titled("other / i'll type it")

\* The option strings of the fallback questions, and of the generated inputs.
ChoiceWords ==
    <<"choice 1", "choice 2", "choice 3", "choice 4", "choice 5",
      "choice 6", "choice 7", "choice 8", "choice 9">>

Choices(n) == [i \in 1..n |-> Titled(ChoiceWords[i])]

\* f"q{idx}" and f"Clarification {idx}".
QuestionIds == <<"q1", "q2", "q3", "q4", "q5", "q6", "q7", "q8", "q9">>

ClarificationWords ==
    <<"clarification 1", "clarification 2", "clarification 3",
      "clarification 4", "clarification 5", "clarification 6",
      "clarification 7", "clarification 8", "clarification 9">>

\* The question texts of _build_fallback_questions, by question id.
FallbackWords ==
    [q1 |-> "how should the series on the topic be structured for the intended audience?",
     q2 |-> "what should this output enable the intended audience to do about the topic?",
     q3 |-> "what depth is most useful for each output item?",
     q4 |-> "who is the primary audience for this deliverable?",
     q5 |-> "what structure should each output item follow?",
     q6 |-> "how should the guidance be grounded for the intended audience?",
     q7 |-> "what voice should the output use?",
     q8 |-> "which decision context matters most?",
     q9 |-> "what should be explicitly avoided in this output?"]

\* add_question of _build_fallback_questions: skipped when the very same
\* string is already in the list; the sentinel is appended when missing.
add_question(questions, question_id, question, options) ==
    IF \E i \in DOMAIN questions : questions[i].question = question
    THEN questions
    ELSE Append(questions,
                [id       |-> question_id,
                 question |-> question,
                 options  |-> IF \E k \in DOMAIN options : options[k] = OtherOption
                              THEN options
                              ELSE Append(options, OtherOption)])

\* The analysis object's draft, as far as the questions depend on it: it
\* names an audience, one of its explicit constraints holds "avoid".
NoDraft == [audience |-> FALSE, avoid |-> FALSE]

\* _build_fallback_questions.  user_query is the set of term groups the
\* lower-cased request contains.
build_fallback_questions(user_query, draft_intent) ==
    LET has_series        == "series" \in user_query
        has_audience      == draft_intent.audience \/ "audience" \in user_query
        has_format        == "format" \in user_query
        has_depth         == "depth" \in user_query
        has_sources       == "sources" \in user_query
        has_substack      == "substack" \in user_query
        has_leadership    == "leadership" \in user_query
        wants_non_obvious == "non-obvious" \in user_query
        s1 == IF has_series
              THEN add_question(<<>>, "q1", Titled(FallbackWords.q1), Choices(3))
              ELSE <<>>
        s2 == add_question(s1, "q2", Titled(FallbackWords.q2), Choices(4))
        s3 == IF ~has_depth
              THEN add_question(s2, "q3", Titled(FallbackWords.q3), Choices(3))
              ELSE s2
        s4 == IF ~has_audience
              THEN add_question(s3, "q4", Titled(FallbackWords.q4), Choices(4))
              ELSE s3
        s5 == IF ~has_format
              THEN add_question(s4, "q5", Titled(FallbackWords.q5), Choices(3))
              ELSE s4
        s6 == IF ~has_sources
              THEN add_question(s5, "q6", Titled(FallbackWords.q6), Choices(4))
              ELSE s5
        s7 == IF has_substack
              THEN add_question(s6, "q7", Titled(FallbackWords.q7), Choices(3))
              ELSE s6
        s8 == IF has_leadership
              THEN add_question(s7, "q8", Titled(FallbackWords.q8), Choices(4))
              ELSE s7
        s9 == IF wants_non_obvious \/ draft_intent.avoid
              THEN add_question(s8, "q9", Titled(FallbackWords.q9), Choices(3))
              ELSE s8
    IN  Take(s9, 6)

\* The option loop of _normalize_intent_draft: options are trimmed, empty
\* ones skipped, and one whose lower-cased text was seen is skipped.
RECURSIVE CleanOptions(_, _, _)
CleanOptions(options, cleaned_options, seen_options) ==
    IF options = <<>>
    THEN [cleaned_options |-> cleaned_options, seen_options |-> seen_options]
    ELSE LET option_text    == strip(Head(options))
             normalized_key == lower(option_text)
         IN  IF option_text.words = "" \/ normalized_key \in seen_options
             THEN CleanOptions(Tail(options), cleaned_options, seen_options)
             ELSE CleanOptions(Tail(options),
                               Append(cleaned_options, option_text),
                               seen_options \cup {normalized_key})

\* One pass of the loop over the agent's questions.
NormalizeItem(idx, item) ==
    LET scan == CleanOptions(item.options, <<>>, {})
        cleaned_options ==
            IF lower(OtherOption) \in scan.seen_options
            THEN scan.cleaned_options
            ELSE Append(scan.cleaned_options, OtherOption)
        question_text == strip(item.question)
    IN  [id       |-> QuestionIds[idx],
         question |-> IF question_text.words = ""
                      THEN Titled(ClarificationWords[idx])
                      ELSE question_text,
         options  |-> Take(cleaned_options, 6)]

\* What question_score looks at in a question: "long" (eight words or
\* more), "query" / "context" (two words shared with the request / with the
\* draft's context), "scope" and "constraint" (one of the listed terms),
\* "generic" (one of the generic patterns).
SpecificWords ==
    <<"specific question 1", "specific question 2", "specific question 3",
      "specific question 4", "specific question 5", "specific question 6",
      "specific question 7", "specific question 8", "specific question 9">>

GenericWords == "tell me more about what you would like the answer to cover"
VagueWords   == "anything?"

Features(words) ==
    IF \E i \in DOMAIN SpecificWords : SpecificWords[i] = words
    THEN {"long", "query"}
    ELSE IF words = FallbackWords.q4 THEN {"long", "scope"}
    ELSE IF words = GenericWords THEN {"long", "generic"}
    ELSE {}

question_score(text) ==
    LET found == Features(text.words)
    IN    (IF "long" \in found THEN 2 ELSE 0)
        + (IF "query" \in found THEN 2 ELSE 0)
        + (IF "context" \in found THEN 2 ELSE 0)
        + (IF "scope" \in found THEN 1 ELSE 0)
        + (IF "constraint" \in found THEN 1 ELSE 0)
        - (IF "generic" \in found THEN 3 ELSE 0)

\* sorted(..., key=question_score, reverse=True): stable, highest first.
RECURSIVE InsertRanked(_, _)
InsertRanked(ranked, q) ==
    IF ranked = <<>>
    THEN <<q>>
    ELSE IF question_score(Head(ranked).question) < question_score(q.question)
         THEN <<q>> \o ranked
         ELSE <<Head(ranked)>> \o InsertRanked(Tail(ranked), q)

RECURSIVE RankQuestions(_, _)
RankQuestions(questions, ranked) ==
    IF questions = <<>>
    THEN ranked
    ELSE RankQuestions(Tail(questions), InsertRanked(ranked, Head(questions)))

\* The loop that tops the list up from the fallback questions.
RECURSIVE FillFromFallback(_, _, _)
FillFromFallback(normalized_questions, existing_questions, fallback_questions) ==
    IF fallback_questions = <<>> \/ Len(normalized_questions) >= 3
    THEN normalized_questions
    ELSE LET fallback == Head(fallback_questions)
         IN  IF lower(fallback.question) \in existing_questions
             THEN FillFromFallback(normalized_questions, existing_questions,
                                   Tail(fallback_questions))
             ELSE FillFromFallback(Append(normalized_questions, fallback),
                                   existing_questions \cup {lower(fallback.question)},
                                   Tail(fallback_questions))

\* The analysis object: absent (None or empty), or a draft and the list of
\* questions the agent proposed.
NoRaw == [present |-> FALSE, draft |-> NoDraft, questions |-> <<>>]

Raw(draft, questions) == [present |-> TRUE, draft |-> draft, questions |-> questions]

\* _normalize_intent_draft(raw, user_query)["questions"]
normalize_intent_draft(raw, user_query) ==
    IF ~raw.present
    THEN build_fallback_questions(user_query, NoDraft)
    ELSE LET normalized_questions ==
                 [idx \in 1..Len(raw.questions) |-> NormalizeItem(idx, raw.questions[idx])]
             fallback_questions == build_fallback_questions(user_query, raw.draft)
             ranked   == RankQuestions(normalized_questions, <<>>)
             scored   == SelectSeq(ranked, LAMBDA q : question_score(q.question) >= 2)
             filtered == IF Len(scored) < 2 THEN Take(ranked, 2) ELSE scored
             existing_questions ==
                 {lower(filtered[i].question) : i \in DOMAIN filtered}
         IN  Take(FillFromFallback(filtered, existing_questions, fallback_questions), 6)

\* ---- generated arguments ----

MaxOptions  == 7    \* options the agent gives one question
MaxListed   == 2    \* length of the freely combined question lists
MaxProposed == 7    \* length of the lists of distinct specific questions

QueryTerms ==
    {"series", "audience", "format", "depth", "sources", "substack",
     "leadership", "non-obvious"}

UserQueries == SUBSET QueryTerms

\* A request that names none of the terms, and one that names depth,
\* audience, format and sources.
FocusQueries == {{}, {"audience", "format", "depth", "sources"}}

Drafts == [audience : BOOLEAN, avoid : BOOLEAN]

Item(question, options) == [question |-> question, options |-> options]

AgentTexts ==
    {Exact(SpecificWords[1]), Titled(SpecificWords[1]),
     Text(SpecificWords[1], FALSE, TRUE, FALSE),
     Text(SpecificWords[1], FALSE, FALSE, TRUE),
     Titled(FallbackWords.q4), Text(FallbackWords.q4, TRUE, FALSE, TRUE),
     Exact(GenericWords), Exact(VagueWords),
     Exact(""), Text("", FALSE, TRUE, FALSE)}

OptionLists ==
    {Choices(n) : n \in 0..MaxOptions}
    \cup {<<OtherOption>>,
          <<Text(OtherOption.words, FALSE, TRUE, FALSE), Titled(ChoiceWords[1])>>,
          Choices(5) \o <<OtherOption>>,
          <<OtherOption>> \o Choices(6),
          <<Titled(ChoiceWords[1]), Exact(ChoiceWords[1]), Text("", FALSE, TRUE, FALSE)>>}

AgentItems ==
    {Item(question, Choices(2)) : question \in AgentTexts}
    \cup {Item(Exact(SpecificWords[1]), options) : options \in OptionLists}

RECURSIVE ListsUpTo(_)
ListsUpTo(n) ==
    IF n = 0
    THEN {<<>>}
    ELSE LET shorter == ListsUpTo(n - 1)
         IN  shorter \cup {Append(list, item) : list \in shorter, item \in AgentItems}

AgentLists == ListsUpTo(MaxListed)

SingleLists == ListsUpTo(1)

LongLists ==
    {[i \in 1..n |-> Item(Exact(SpecificWords[i]), Choices(2))] : n \in 3..MaxProposed}

\* One call of _normalize_intent_draft.
NormalizeIntentDraft ==
    /\ fn_pc = "call"
    /\ fn_name = "_normalize_intent_draft"
    /\ fn_out' = normalize_intent_draft(fn_in.raw, fn_in.user_query)
    /\ fn_pc' = "done"
    /\ UNCHANGED <<fn_name, fn_in, fn_expect>>
    /\ UNCHANGED <<qvars, dvars, stagevars, pvars, stvars, svars, cvars, gvars>>

\* The arguments: any request with no analysis object; any request and any
\* draft with at most one proposed question; a focus request with any
\* generated question list.
InitDraft ==
    /\ IdleQuery
    /\ IdleData
    /\ IdleStage
    /\ IdlePanel
    /\ conv_exists = FALSE
    /\ messages = <<>>
    /\ IdleStreams
    /\ IdleGate
    /\ fn_pc = "call"
    /\ fn_name = "_normalize_intent_draft"
    /\ fn_expect = <<>>
    /\ fn_out = <<>>
    /\ \E user_query \in UserQueries :
          \/ fn_in = [raw |-> NoRaw, user_query |-> user_query]
          \/ \E draft \in Drafts, questions \in SingleLists :
                fn_in = [raw |-> Raw(draft, questions), user_query |-> user_query]
          \/ /\ user_query \in FocusQueries
             /\ \E questions \in AgentLists \cup LongLists :
                   fn_in = [raw |-> Raw(NoDraft, questions), user_query |-> user_query]

NextDraft == NormalizeIntentDraft

SpecDraft == InitDraft /\ [][NextDraft]_vars

\* ----------------------------------------------------------------------
\* Claims about the clarification questions
\* ----------------------------------------------------------------------

DraftDone == fn_pc = "done" /\ fn_name = "_normalize_intent_draft"

\* C17: for every request and every analysis object, none included, the
\* returned question list has at least 3 and at most 6 entries.
C17_QuestionCount ==
    DraftDone => (Len(fn_out) >= 3 /\ Len(fn_out) <= 6)

\* No analysis object, a request that names depth, audience, format and
\* sources: the one unconditional fallback question is all that is returned.
C17_Witness ==
    /\ DraftDone
    /\ ~fn_in.raw.present
    /\ fn_in.user_query = {"audience", "format", "depth", "sources"}
    /\ Len(fn_out) = 1
    /\ fn_out[1].id = "q2"

\* The text with case and blanks normalised.
Canon(text) == Exact(text.words)

\* C18: no two returned questions have the same text after case-folding
\* and whitespace normalisation, also when the agent proposes one question
\* twice.
C18_DistinctQuestions ==
    DraftDone =>
        \A i, j \in DOMAIN fn_out :
            i # j => Canon(fn_out[i].question) # Canon(fn_out[j].question)

\* The agent proposed the same question twice and both copies are returned.
C18_Witness ==
    /\ DraftDone
    /\ fn_in.raw.present
    /\ Len(fn_in.raw.questions) = 2
    /\ fn_in.raw.questions[1].question = fn_in.raw.questions[2].question
    /\ Len(fn_out) >= 2
    /\ fn_out[1].question = fn_out[2].question
    /\ fn_out[1].question = fn_in.raw.questions[1].question

\* The option is the sentinel, in whatever letter case.
IsOther(option) == lower(strip(option)) = lower(OtherOption)

HasOther(question) == \E k \in DOMAIN question.options : IsOther(question.options[k])

\* C19: every returned question has the "Other / I'll type it" sentinel
\* among its options, whatever number of options the agent supplied.
C19_SentinelPresent ==
    DraftDone => \A i \in DOMAIN fn_out : HasOther(fn_out[i])

\* The agent gave six options of its own: the sentinel was appended as the
\* seventh and cut off.
C19_Witness ==
    /\ DraftDone
    /\ fn_in.raw.present
    /\ Len(fn_in.raw.questions) = 1
    /\ fn_in.raw.questions[1].options = Choices(6)
    /\ fn_out[1].options = Choices(6)
    /\ ~HasOther(fn_out[1])

\* C20: every returned question has at least 2 and at most 6 options, also
\* when the agent supplied none or more than six.
C20_OptionCount ==
    DraftDone =>
        \A i \in DOMAIN fn_out :
            Len(fn_out[i].options) >= 2 /\ Len(fn_out[i].options) <= 6

\* The agent gave no options: the question is returned with the sentinel
\* as its only option.
C20_Witness ==
    /\ DraftDone
    /\ fn_in.raw.present
    /\ Len(fn_in.raw.questions) = 1
    /\ fn_in.raw.questions[1].options = <<>>
    /\ fn_out[1].options = <<OtherOption>>

\* C21: question ids are unique within the returned list, also when the
\* agent's questions (with positional ids) are combined with backfilled
\* fallback questions.
C21_UniqueIds ==
    DraftDone =>
        \A i, j \in DOMAIN fn_out : i # j => fn_out[i].id # fn_out[j].id

\* Two proposed questions took the positional ids q1 and q2 and the list
\* was topped up with the fallback question whose id is q2 as well.
C21_Witness ==
    /\ DraftDone
    /\ fn_in.raw.present
    /\ Len(fn_in.raw.questions) = 2
    /\ Len(fn_out) = 3
    /\ fn_out[2].id = "q2"
    /\ fn_out[3].id = "q2"
    /\ fn_out[3].question = Titled(FallbackWords.q2)
    /\ fn_out[2].question # fn_out[3].question

\* ======================================================================
\* council._normalize_intent_draft: the display payload
\* ======================================================================

\* A free text is known by where it comes from and how it relates to the
\* user text: "" (absent or blank), "verbatim" (a string _is_verbatim_like
\* judges a near-verbatim copy of the user text; the user text itself is
\* one), "agent" (any other string of the analysis object), "template" (a
\* string the code builds from its fixed phrases).
is_verbatim_like(text) == text = "verbatim"

\* _filter_duplicates
filter_duplicates(items) == SelectSeq(items, LAMBDA item : ~is_verbatim_like(item))

\* _build_display_from_query: every field is built from fixed phrases; the
\* result has no "markdown" key.
build_display_from_query ==
    [reconstructed_ask |-> "template",
     understanding     |-> <<"template", "template", "template">>,
     assumptions       |-> <<"template", "template">>,
     unclear           |-> <<"template", "template">>,
     deep_read         |-> "template",
     decision_focus    |-> "template",
     markdown          |-> ""]

\* _format_ambiguities_section: empty for no items, else built sentences.
format_ambiguities_section(items) == IF items = <<>> THEN "" ELSE "template"

\* _normalize_intent_draft(raw, user_query)["display"].  `display` is the
\* analysis object's display.  The draft's texts (primary intent, goal,
\* audience, ...) only choose the words of the built strings: one that is
\* itself a near-verbatim copy is replaced by a fixed phrase before use.
display_payload(present, display) ==
    IF ~present
    THEN build_display_from_query
    ELSE LET understanding1 == filter_duplicates(display.understanding)
             assumptions1   == filter_duplicates(display.assumptions)
             unclear1       == filter_duplicates(display.unclear)
             deep_read1 ==
                 IF is_verbatim_like(display.deep_read) THEN "" ELSE display.deep_read
             decision_focus1 ==
                 IF is_verbatim_like(display.decision_focus) THEN "" ELSE display.decision_focus
             ask1 ==
                 IF is_verbatim_like(display.reconstructed_ask)
                 THEN ""
                 ELSE display.reconstructed_ask
             \* f"Create {deliverable_phrase} that {goal_text}..."
             ask2 == IF ask1 = "" THEN "template" ELSE ask1
             \* [f"Core ask: {core_ask}", ..., the filler sentence]
             understanding2 ==
                 IF understanding1 = <<>>
                 THEN <<"template", "template", "template">>
                 ELSE understanding1
             deep_read2 ==
                 IF deep_read1 = "" THEN build_display_from_query.deep_read ELSE deep_read1
             decision_focus_candidate == format_ambiguities_section(unclear1)
             decision_focus2 ==
                 IF decision_focus1 # "" THEN decision_focus1
                 ELSE IF decision_focus_candidate # "" THEN decision_focus_candidate
                 ELSE build_display_from_query.decision_focus
             ask3 ==
                 IF is_verbatim_like(ask2)
                 THEN build_display_from_query.reconstructed_ask
                 ELSE ask2
             understanding3 ==
                 IF \A i \in DOMAIN understanding2 : is_verbatim_like(understanding2[i])
                 THEN build_display_from_query.understanding
                 ELSE understanding2
             assumptions2 ==
                 IF \A i \in DOMAIN assumptions1 : is_verbatim_like(assumptions1[i])
                 THEN build_display_from_query.assumptions
                 ELSE assumptions1
             unclear2 ==
                 IF \A i \in DOMAIN unclear1 : is_verbatim_like(unclear1[i])
                 THEN build_display_from_query.unclear
                 ELSE unclear1
             \* _display_payload_to_markdown is used only for an empty markdown
             markdown1 == IF display.markdown = "" THEN "template" ELSE display.markdown
         IN  [reconstructed_ask |-> ask3,
              understanding     |-> understanding3,
              assumptions       |-> assumptions2,
              unclear           |-> unclear2,
              deep_read         |-> deep_read2,
              decision_focus    |-> decision_focus2,
              markdown          |-> markdown1]

\* ---- generated arguments ----

MaxItems == 2    \* items of one list of the agent's display

AgentFieldTexts == {"", "verbatim", "agent"}

RECURSIVE ItemListsUpTo(_)
ItemListsUpTo(n) ==
    IF n = 0
    THEN {<<>>}
    ELSE LET shorter == ItemListsUpTo(n - 1)
         IN  shorter \cup {Append(list, item) : list \in shorter, item \in {"verbatim", "agent"}}

ItemLists == ItemListsUpTo(MaxItems)

NoDisplay ==
    [reconstructed_ask |-> "", understanding |-> <<>>, assumptions |-> <<>>,
     unclear |-> <<>>, deep_read |-> "", decision_focus |-> "", markdown |-> ""]

\* One call of _normalize_intent_draft, its display payload.
NormalizeDisplay ==
    /\ fn_pc = "call"
    /\ fn_name = "_normalize_intent_draft.display"
    /\ fn_out' = display_payload(fn_in.present, fn_in.display)
    /\ fn_pc' = "done"
    /\ UNCHANGED <<fn_name, fn_in, fn_expect>>
    /\ UNCHANGED <<qvars, dvars, stagevars, pvars, stvars, svars, cvars, gvars>>

\* The arguments: no analysis object; any four single texts with one list
\* in all three list fields; any three lists with the single texts absent.
InitDisplay ==
    /\ IdleQuery
    /\ IdleData
    /\ IdleStage
    /\ IdlePanel
    /\ conv_exists = FALSE
    /\ messages = <<>>
    /\ IdleStreams
    /\ IdleGate
    /\ fn_pc = "call"
    /\ fn_name = "_normalize_intent_draft.display"
    /\ fn_expect = <<>>
    /\ fn_out = <<>>
    /\ \/ fn_in = [present |-> FALSE, display |-> NoDisplay]
       \/ \E ask \in AgentFieldTexts, deep \in AgentFieldTexts,
             focus \in AgentFieldTexts, md \in AgentFieldTexts, items \in ItemLists :
             fn_in = [present |-> TRUE,
                      display |-> [reconstructed_ask |-> ask, understanding |-> items,
                                   assumptions |-> items, unclear |-> items,
                                   deep_read |-> deep, decision_focus |-> focus,
                                   markdown |-> md]]
       \/ \E u \in ItemLists, a \in ItemLists, c \in ItemLists :
                fn_in = [present |-> TRUE,
                         display |-> [NoDisplay EXCEPT !.understanding = u,
                                                       !.assumptions = a,
                                                       !.unclear = c]]

NextDisplay == NormalizeDisplay

SpecDisplay == InitDisplay /\ [][NextDisplay]_vars

\* ----------------------------------------------------------------------
\* Claims about the display payload
\* ----------------------------------------------------------------------

DisplayDone == fn_pc = "done" /\ fn_name = "_normalize_intent_draft.display"

\* C22: in the returned display payload no free-text field (reconstructed
\* ask, deep read, decision focus, markdown, any item of understanding,
\* assumptions or unclear) is a near-verbatim copy of the user text, and
\* none of the three lists is empty.
C22_NoVerbatimField ==
    DisplayDone =>
        /\ ~is_verbatim_like(fn_out.reconstructed_ask)
        /\ ~is_verbatim_like(fn_out.deep_read)
        /\ ~is_verbatim_like(fn_out.decision_focus)
        /\ ~is_verbatim_like(fn_out.markdown)
        /\ \A i \in DOMAIN fn_out.understanding : ~is_verbatim_like(fn_out.understanding[i])
        /\ \A i \in DOMAIN fn_out.assumptions : ~is_verbatim_like(fn_out.assumptions[i])
        /\ \A i \in DOMAIN fn_out.unclear : ~is_verbatim_like(fn_out.unclear[i])
        /\ fn_out.understanding # <<>>
        /\ fn_out.assumptions # <<>>
        /\ fn_out.unclear # <<>>

\* The agent's markdown repeats the user text and is returned as it came,
\* while its verbatim reconstructed ask was replaced.
C22_Witness ==
    /\ DisplayDone
    /\ fn_in.present
    /\ is_verbatim_like(fn_in.display.markdown)
    /\ is_verbatim_like(fn_in.display.reconstructed_ask)
    /\ fn_out.reconstructed_ask = "template"
    /\ is_verbatim_like(fn_out.markdown)

\* ======================================================================
\* council.stage_brainstorm_experts: the suggestion calls and the synthesis
\* ======================================================================

NumModels == 3    \* length of the model list (expert_models or COUNCIL_MODELS)

Models == 1..NumModels

\* What the backend at each index of the model list suggests.
SuggestionText ==
    <<"suggestions 1", "suggestions 2", "suggestions 3", "suggestions 4",
      "suggestions 5">>

\* An exception instance that gather(..., return_exceptions=True) returns
\* in place of a result.
TaskException == [kind |-> "exception"]

TaskOutcomes(i) ==
    {NoneResult, ContentDict("empty"), TaskException, ContentDict(SuggestionText[i])}

LogEntry(event, call) == [event |-> event, call |-> call]

\* The chairman's call in the log.
Chairman == 0

\* asyncio.wait(..., return_when=FIRST_COMPLETED) in place of gather.
GatherFirstDone(calls) == \E i \in DOMAIN calls : calls[i].state = "done"

\* `await asyncio.gather(*tasks, return_exceptions=True)` returns when
\* every task has a result or an exception.
GatherDone(calls) == \A i \in DOMAIN calls : calls[i].state = "done"

\* `isinstance(resp, Exception) or not _safe_content(resp)`
SuggestionFailed(resp) == resp.kind = "exception" \/ safe_content(resp) = NoContent

\* The loop `for i, resp in enumerate(responses)`: one display section per
\* index, one synthesis entry per response with content.
BrainstormSections(gathered) ==
    [i \in DOMAIN gathered |->
        [model |-> i,
         text  |-> IF SuggestionFailed(gathered[i])
                   THEN "*Failed to respond*"
                   ELSE gathered[i].content]]

AllSuggestions(gathered) ==
    LET sections == BrainstormSections(gathered)
    IN  SelectSeq(sections, LAMBDA s : ~SuggestionFailed(gathered[s.model]))

\* `tasks = [query_model(model, ...) for model in models]` handed to
\* asyncio.gather: every coroutine becomes a scheduled task.
GatherStart ==
    /\ stage_pc = "start"
    /\ stage_calls' = [i \in Models |-> [state |-> "scheduled", result |-> NoneResult]]
    /\ stage_pc' = "gather"
    /\ UNCHANGED <<stage_log, stage_locals, stage_result>>
    /\ UNCHANGED <<qvars, dvars, pvars, stvars, svars, cvars, gvars, fvars>>

\* The event loop runs the next scheduled task (in creation order) up to
\* its request.
SuggestionIssue(i) ==
    /\ stage_pc = "gather"
    /\ stage_calls[i].state = "scheduled"
    /\ \A j \in Models : j < i => stage_calls[j].state # "scheduled"
    /\ stage_calls' = [stage_calls EXCEPT ![i].state = "flying"]
    /\ stage_log' = Append(stage_log, LogEntry("issue", i))
    /\ UNCHANGED <<stage_pc, stage_locals, stage_result>>
    /\ UNCHANGED <<qvars, dvars, pvars, stvars, svars, cvars, gvars, fvars>>

\* A suggestion call in flight ends, with a result or an exception.
SuggestionReturn(i) ==
    /\ stage_pc = "gather"
    /\ stage_calls[i].state = "flying"
    /\ \E resp \in TaskOutcomes(i) :
          stage_calls' = [stage_calls EXCEPT ![i] = [state |-> "done", result |-> resp]]
    /\ stage_log' = Append(stage_log, LogEntry("finish", i))
    /\ UNCHANGED <<stage_pc, stage_locals, stage_result>>
    /\ UNCHANGED <<qvars, dvars, pvars, stvars, svars, cvars, gvars, fvars>>

\* gather returns the results in task order; the sections are built and
\* the chairman's synthesis call is issued.
SynthesisIssue ==
    /\ stage_pc = "gather"
    /\ GatherDone(stage_calls)
    /\ LET gathered == [i \in Models |-> stage_calls[i].result]
       IN  stage_locals' = [responses           |-> gathered,
                            brainstorm_sections |-> BrainstormSections(gathered),
                            all_suggestions     |-> AllSuggestions(gathered)]
    /\ stage_log' = Append(stage_log, LogEntry("issue", Chairman))
    /\ stage_pc' = "chairman"
    /\ UNCHANGED <<stage_calls, stage_result>>
    /\ UNCHANGED <<qvars, dvars, pvars, stvars, svars, cvars, gvars, fvars>>

\* The synthesis call ends; without content the default panel is returned.
SynthesisReturn ==
    /\ stage_pc = "chairman"
    /\ \E response \in StageResults :
          stage_result' =
              [brainstorm_display |-> stage_locals.brainstorm_sections,
               experts |-> IF safe_content(response) = NoContent
                           THEN "default_experts"
                           ELSE "synthesized"]
    /\ stage_log' = Append(stage_log, LogEntry("finish", Chairman))
    /\ stage_pc' = "done"
    /\ UNCHANGED <<stage_calls, stage_locals>>
    /\ UNCHANGED <<qvars, dvars, pvars, stvars, svars, cvars, gvars, fvars>>

InitBrainstorm ==
    /\ IdleQuery
    /\ IdleData
    /\ IdlePanel
    /\ conv_exists = FALSE
    /\ messages = <<>>
    /\ IdleStreams
    /\ IdleGate
    /\ IdleHelper
    /\ stage_pc = "start"
    /\ stage_calls = <<>>
    /\ stage_log = <<>>
    /\ stage_locals = <<>>
    /\ stage_result = <<>>

NextBrainstorm ==
    \/ GatherStart
    \/ \E i \in Models : SuggestionIssue(i)
    \/ \E i \in Models : SuggestionReturn(i)
    \/ SynthesisIssue
    \/ SynthesisReturn

SpecBrainstorm == InitBrainstorm /\ [][NextBrainstorm]_vars

\* ----------------------------------------------------------------------
\* Claims about panel formation
\* ----------------------------------------------------------------------

\* Position of an entry in the log (0: not there).
LogIndex(event, call) ==
    IF \E n \in DOMAIN stage_log : stage_log[n] = LogEntry(event, call)
    THEN CHOOSE n \in DOMAIN stage_log : stage_log[n] = LogEntry(event, call)
    ELSE 0

\* C23: the suggestion calls are in flight concurrently (a scheduled call
\* is issued whatever the others' progress), the chairman's synthesis call
\* is issued only after every suggestion call has completed or failed, each
\* result is attributed to the backend at the same index whatever the
\* completion order, and a failing or empty call neither aborts the stage
\* nor drops another backend's suggestion.
C23_ConcurrentThenJoined ==
    /\ stage_pc = "gather" =>
          \A i \in Models :
              (/\ stage_calls[i].state = "scheduled"
               /\ \A j \in Models : j < i => stage_calls[j].state # "scheduled")
                  => ENABLED SuggestionIssue(i)
    /\ LogIndex("issue", Chairman) # 0 =>
          /\ stage_pc \in {"chairman", "done"}
          /\ \A i \in Models :
                /\ stage_calls[i].state = "done"
                /\ LogIndex("finish", i) # 0
                /\ LogIndex("finish", i) < LogIndex("issue", Chairman)
          /\ \A i \in Models :
                LET resp    == stage_calls[i].result
                    section == stage_locals.brainstorm_sections[i]
                IN  /\ section.model = i
                    /\ HasContent(resp) =>
                          /\ section.text = resp.content
                          /\ \E n \in DOMAIN stage_locals.all_suggestions :
                                stage_locals.all_suggestions[n] = section
                    /\ ~HasContent(resp) =>
                          /\ section.text = "*Failed to respond*"
                          /\ \A n \in DOMAIN stage_locals.all_suggestions :
                                stage_locals.all_suggestions[n].model # i
          /\ \A m, n \in DOMAIN stage_locals.all_suggestions :
                m < n => stage_locals.all_suggestions[m].model
                            < stage_locals.all_suggestions[n].model

\* All calls were in flight together, the last backend answered first,
\* the first one failed, and the stage returned with the others'
\* suggestions under their own index.
C23_Witness ==
    /\ stage_pc = "done"
    /\ \A i \in Models : stage_log[i] = LogEntry("issue", i)
    /\ stage_log[NumModels + 1] = LogEntry("finish", NumModels)
    /\ stage_calls[1].result = TaskException
    /\ \A i \in Models \ {1} : stage_calls[i].result = ContentDict(SuggestionText[i])
    /\ stage_result.brainstorm_display[NumModels].text = SuggestionText[NumModels]
    /\ stage_result.brainstorm_display[1].text = "*Failed to respond*"
    /\ Len(stage_locals.all_suggestions) = NumModels - 1

\* ======================================================================
\* council._compute_search_query_count
\* ======================================================================

SEARCH_QUERY_COUNT == 3
SEARCH_QUERY_MAX   == 8

ScopeKeys ==
    <<"claims_to_verify", "areas_of_concern", "assumptions_to_check",
      "entities_and_sources", "critical_metrics">>

\* A value of a scope list: a string (a Text whose words are numbered, 0
\* for no words at all) or something that is not a string.
NotAString == [kind |-> "number"]

IsString(value) == "words" \in DOMAIN value

\* A value of the scope object: a list, or something that is not a list.
ListValue(items) == [kind |-> "list", items |-> items]

NotAList == [kind |-> "string", items |-> <<>>]

\* scope_size // 6, the remainder dropped.
ProposedFloor(scope_size) == scope_size \div 6

\* proposed = (scope_size + 5) // 6
ProposedCount(scope_size) == (scope_size + 5) \div 6

\* _compute_search_query_count(scope_payload)
compute_search_query_count(scope_payload) ==
    IF scope_payload.kind # "dict"
    THEN SEARCH_QUERY_COUNT
    ELSE LET lists == {scope_payload.values[k] : k \in DOMAIN ScopeKeys}
             items ==
                 UNION {{lower(strip(v.items[i])) :
                            i \in {j \in DOMAIN v.items :
                                      /\ IsString(v.items[j])
                                      /\ strip(v.items[j]).words # 0}} :
                        v \in {w \in lists : w.kind = "list"}}
             scope_size == Cardinality(items)
             proposed   == ProposedCount(scope_size)
         IN  IF scope_size = 0 THEN SEARCH_QUERY_COUNT
             ELSE IF proposed < SEARCH_QUERY_COUNT THEN SEARCH_QUERY_COUNT
             ELSE IF proposed > SEARCH_QUERY_MAX THEN SEARCH_QUERY_MAX
             ELSE proposed

\* ---- generated arguments ----

MaxScope == 50    \* distinct items of a generated scope
MaxRepeat == 2    \* items that are repeated in another spelling

\* The i-th distinct item; the spelling varies with i.
ScopeText(i) == Text(i, i % 2 = 0, i % 3 = 0, FALSE)

\* The same item spelled with the other letter case and other blanks.
Respelled(i) == Text(i, i % 2 # 0, i % 3 # 0, FALSE)

\* A scope object with n distinct items dealt over its first `used` lists,
\* `repeat` of them repeated in another spelling, and (junk) blank strings
\* and values that are not strings; the lists after `used` are not lists.
ScopeObject(n, used, repeat, junk) ==
    [kind |-> "dict",
     values |->
        [k \in DOMAIN ScopeKeys |->
            IF k > used THEN NotAList
            ELSE ListValue(
                    SelectSeq([i \in 1..n |-> ScopeText(i)],
                              LAMBDA t : ((t.words - 1) % used) + 1 = k)
                    \o (IF k = used THEN [i \in 1..repeat |-> Respelled(i)] ELSE <<>>)
                    \o (IF junk /\ k = 1
                        THEN <<Text(0, FALSE, FALSE, FALSE), Text(0, FALSE, TRUE, FALSE),
                               NotAString>>
                        ELSE <<>>))]]

\* scope_payload is None, or a list.
NoScope == [kind |-> "None", values |-> <<>>]
ListScope == [kind |-> "list", values |-> <<>>]

\* One call of _compute_search_query_count.
ComputeSearchQueryCount ==
    /\ fn_pc = "call"
    /\ fn_name = "_compute_search_query_count"
    /\ fn_out' = compute_search_query_count(fn_in)
    /\ fn_pc' = "done"
    /\ UNCHANGED <<fn_name, fn_in, fn_expect>>
    /\ UNCHANGED <<qvars, dvars, stagevars, pvars, stvars, svars, cvars, gvars>>

\* fn_expect is the number of distinct items the argument was built with.
InitScope ==
    /\ IdleQuery
    /\ IdleData
    /\ IdleStage
    /\ IdlePanel
    /\ conv_exists = FALSE
    /\ messages = <<>>
    /\ IdleStreams
    /\ IdleGate
    /\ fn_pc = "call"
    /\ fn_name = "_compute_search_query_count"
    /\ fn_out = <<>>
    /\ \/ /\ fn_in \in {NoScope, ListScope}
          /\ fn_expect = 0
       \/ \E n \in 0..MaxScope, used \in 1..Len(ScopeKeys), repeat \in 0..MaxRepeat,
             junk \in BOOLEAN :
             /\ repeat <= n
             /\ fn_in = ScopeObject(n, used, repeat, junk)
             /\ fn_expect = n

NextScope == ComputeSearchQueryCount

SpecScope == InitScope /\ [][NextScope]_vars

\* ----------------------------------------------------------------------
\* Claims about the number of search queries
\* ----------------------------------------------------------------------

ScopeDone == fn_pc = "done" /\ fn_name = "_compute_search_query_count"

\* The least c with 6 * c >= n.
CeilSixth(n) == CHOOSE c \in 0..n : 6 * c >= n /\ (c = 0 \/ 6 * (c - 1) < n)

Clamp(x, lo, hi) == IF x < lo THEN lo ELSE IF x > hi THEN hi ELSE x

\* C24: the result is clamp(ceil(n / 6), 3, 8) for n distinct non-empty
\* strings (compared trimmed and case-folded) over the five categories; it
\* is the base 3 when the scope is missing, not an object or holds no item;
\* n = 13 gives 3; and it does not decrease when n grows.
C24_ClampedCeiling ==
    ScopeDone =>
        /\ fn_out = Clamp(CeilSixth(fn_expect), 3, 8)
        /\ (fn_in.kind # "dict" \/ fn_expect = 0) => fn_out = 3
        /\ fn_expect = 13 => fn_out = 3
        /\ (fn_in.kind = "dict" /\ fn_expect > 0) =>
              compute_search_query_count(ScopeObject(fn_expect - 1, 1, 0, FALSE)) <= fn_out

\* 43 distinct items in every spelling, with repeats, blank strings and
\* non-strings among them and one category that is not a list: 8 queries.
C24_Witness ==
    /\ ScopeDone
    /\ fn_in.kind = "dict"
    /\ fn_expect = 43
    /\ fn_in.values[5] = NotAList
    /\ Len(fn_in.values[1].items) > 11
    /\ \E i \in DOMAIN fn_in.values[4].items : fn_in.values[4].items[i] = Respelled(1)
    /\ fn_out = 8

\* ======================================================================
\* council.stage_verification: scope, targets, searches, report
\* ======================================================================

MaxTargets == 4    \* targets a target-selection answer holds

\* What the text of an answer is to the JSON helpers: "text" holds no JSON,
\* "json_list" is valid JSON but not an object, "json_deep" is nested so
\* deeply that json.loads raises RecursionError, "json_no_scope" is an
\* object without a usable scope list, "json_scope" an object with scope
\* lists, "json" an evidence object; "array" is an array of target
\* objects, "array_nested" one whose objects hold arrays (the array regex
\* stops at the first closing bracket), "array_junk" an array without any
\* object.
ScopeAnswers ==
    {NoneResult, ErrorDict(401), ContentDict("empty"), ContentDict("text"),
     ContentDict("json_list"), ContentDict("json_deep"),
     ContentDict("json_no_scope"), ContentDict("json_scope")}

TargetAnswers ==
    {NoneResult, ContentDict("empty"), ContentDict("text"),
     ContentDict("json_deep"), ContentDict("array_nested"),
     ContentDict("array_junk"), ContentDict("array")}

SearchAnswers ==
    {NoneResult, ContentDict("empty"), ContentDict("text"),
     ContentDict("json"), ContentDict("json_list")}

ReportAnswers ==
    {NoneResult, ContentDict("empty"), ContentDict("text"), ContentDict("audit")}

\* The scope objects a "json_scope" answer holds: few items, and enough
\* items for one target more than the base count.
ScopeSizes == {1, 6 * SEARCH_QUERY_COUNT + 1}

ScopePayloads == {ScopeObject(n, 5, 0, FALSE) : n \in ScopeSizes}

\* A target object: "ok", or "bad_claim" whose claim is not a string
\* (claim.strip() raises).
RECURSIVE TargetListsUpTo(_)
TargetListsUpTo(n) ==
    IF n = 0
    THEN {<<>>}
    ELSE LET shorter == TargetListsUpTo(n - 1)
         IN  shorter \cup {Append(list, t) : list \in shorter, t \in {"ok", "bad_claim"}}

TargetLists == TargetListsUpTo(MaxTargets) \ {<<>>}

NoteNoCoverage ==
    "Search scope generation returned no usable coverage; proceeding without web evidence."
NoteScopeFailed == "Search scope generation failed; proceeding without web evidence."
NoteNoTargets ==
    "Search target generation returned no valid targets; proceeding without web evidence."
NoteTargetsFailed == "Search target generation failed; proceeding without web evidence."
NoteScopeUnavailable == "Search scope unavailable; proceeding without web evidence."
NoteNoEvidence == "Search returned no evidence; verification relies on model knowledge."
NoteSearchFailed == "Search execution failed; proceeding without web evidence."

\* The locals of stage_verification before its first call.
VerificationLocals ==
    [search_status_notes |-> <<>>,
     search_query_target_count |-> SEARCH_QUERY_COUNT,
     search_scope        |-> FALSE,
     search_targets      |-> <<>>,
     target              |-> 0,
     evidence_blocks     |-> <<>>,
     search_evidence     |-> FALSE,
     evidence_section    |-> FALSE]

\* A call is issued; a search call is for the target the loop stands at.
IssueCall(calls, name, locals) ==
    Append(calls, [call |-> name, result |-> Pending,
                   target |-> IF name = "search" THEN locals.target ELSE 0])

FinishCall(calls, response) == [calls EXCEPT ![Len(calls)].result = response]

\* The scope step with the try/except around it left out.
ScopeStepUncaught(response) ==
    LET content == safe_content(response)
    IN  IF content \in {"json_list", "json_deep"}
        THEN [search_scope |-> FALSE, note |-> "", raised |-> TRUE]
        ELSE IF content = "json_scope"
        THEN [search_scope |-> TRUE, note |-> "", raised |-> FALSE]
        ELSE [search_scope |-> FALSE, note |-> NoteNoCoverage, raised |-> FALSE]

\* Step 1 from the scope response on: _extract_json of the content, the
\* scope sections, the note; whatever is raised inside is caught.
ScopeStep(response) ==
    LET content == safe_content(response)
    IN  IF content \in {"json_list", "json_deep"}
        THEN [search_scope |-> FALSE, note |-> NoteScopeFailed, raised |-> FALSE]
        ELSE IF content = "json_scope"
        THEN [search_scope |-> TRUE, note |-> "", raised |-> FALSE]
        ELSE [search_scope |-> FALSE, note |-> NoteNoCoverage, raised |-> FALSE]

AddNote(notes, note) == IF note = "" THEN notes ELSE Append(notes, note)

\* The search loop up to its next await: the loop ends, or the target's
\* claim raises (caught around the whole loop), or the next search call is
\* issued.  Gives the locals and the call to issue.
EnterTarget(locals, index) ==
    LET targets == Take(locals.search_targets, locals.search_query_target_count)
    IN  IF index > Len(targets)
        THEN [call |-> "report",
              locals |->
                 IF locals.evidence_blocks # <<>>
                 THEN [locals EXCEPT !.search_evidence = TRUE, !.evidence_section = TRUE]
                 ELSE [locals EXCEPT !.search_status_notes =
                                         Append(@, NoteNoEvidence)]]
        ELSE IF targets[index] = "bad_claim"
        THEN [call |-> "report",
              locals |-> [locals EXCEPT !.search_status_notes = Append(@, NoteSearchFailed),
                                        !.search_evidence = FALSE]]
        ELSE [call |-> "search", locals |-> [locals EXCEPT !.target = index]]

\* The evidence block built from one search response ("raised": the
\* evidence is not an object and evidence.get raises).
EvidenceBlock(search_response) ==
    LET raw_content == IF safe_content(search_response) = NoContent
                       THEN ""
                       ELSE search_response.content
    IN  IF raw_content = "json_list" THEN "raised"
        ELSE IF raw_content = "json" THEN "evidence"
        ELSE IF raw_content = "" THEN "No evidence summary available."
        ELSE "raw_content"

\* _trim_verification_report of the status block and the report text.
trim_verification_report(notes, body) ==
    [search_status |-> notes, body |-> body]

\* The scope call returns.
ScopeReturn ==
    /\ stage_pc = "scope"
    /\ \E scope_response \in ScopeAnswers :
       \E scope_payload \in ScopePayloads :
          LET step   == ScopeStep(scope_response)
              calls  == FinishCall(stage_calls, scope_response)
              locals == [stage_locals EXCEPT
                            !.search_scope = step.search_scope,
                            !.search_query_target_count =
                                IF step.search_scope
                                THEN compute_search_query_count(scope_payload)
                                ELSE @,
                            !.search_status_notes = AddNote(@, step.note)]
          IN  IF step.raised
              THEN /\ stage_pc' = "raised"
                   /\ stage_calls' = calls
                   /\ stage_locals' = locals
              ELSE IF step.search_scope
              THEN /\ stage_pc' = "targets"
                   /\ stage_calls' = IssueCall(calls, "targets", locals)
                   /\ stage_locals' = locals
              ELSE /\ stage_pc' = "report"
                   /\ stage_calls' = IssueCall(calls, "report", locals)
                   /\ stage_locals' =
                         IF locals.search_status_notes = <<>>
                         THEN [locals EXCEPT !.search_status_notes =
                                                 <<NoteScopeUnavailable>>]
                         ELSE locals
    /\ UNCHANGED <<stage_log, stage_result>>
    /\ UNCHANGED <<qvars, dvars, pvars, stvars, svars, cvars, gvars, fvars>>

\* The target-selection call returns.
TargetsReturn ==
    /\ stage_pc = "targets"
    /\ \E response \in TargetAnswers :
       \E listed \in TargetLists :
          LET content == safe_content(response)
              calls   == FinishCall(stage_calls, response)
              search_targets == IF content = "array" THEN listed ELSE <<>>
              note == IF content = "json_deep" THEN NoteTargetsFailed
                      ELSE IF search_targets = <<>> THEN NoteNoTargets
                      ELSE ""
              locals == [stage_locals EXCEPT
                            !.search_targets = search_targets,
                            !.search_status_notes = AddNote(@, note)]
              next == IF search_targets = <<>>
                      THEN [call |-> "report", locals |-> locals]
                      ELSE EnterTarget(locals, 1)
          IN  /\ stage_pc' = next.call
              /\ stage_calls' = IssueCall(calls, next.call, next.locals)
              /\ stage_locals' = next.locals
    /\ UNCHANGED <<stage_log, stage_result>>
    /\ UNCHANGED <<qvars, dvars, pvars, stvars, svars, cvars, gvars, fvars>>

\* A search call returns.
SearchReturn ==
    /\ stage_pc = "search"
    /\ \E search_response \in SearchAnswers :
          LET calls == FinishCall(stage_calls, search_response)
              block == EvidenceBlock(search_response)
              next  ==
                  IF block = "raised"
                  THEN [call |-> "report",
                        locals |-> [stage_locals EXCEPT
                                       !.search_status_notes = Append(@, NoteSearchFailed),
                                       !.search_evidence = FALSE]]
                  ELSE EnterTarget([stage_locals EXCEPT
                                       !.evidence_blocks = Append(@, block)],
                                   stage_locals.target + 1)
          IN  /\ stage_pc' = next.call
              /\ stage_calls' = IssueCall(calls, next.call, next.locals)
              /\ stage_locals' = next.locals
    /\ UNCHANGED <<stage_log, stage_result>>
    /\ UNCHANGED <<qvars, dvars, pvars, stvars, svars, cvars, gvars, fvars>>

\* The report-assembly call returns and the stage returns its report.
ReportReturn ==
    /\ stage_pc = "report"
    /\ \E response \in ReportAnswers :
          LET verification_content ==
                  IF safe_content(response) = NoContent
                  THEN "Verification unavailable."
                  ELSE response.content
          IN  /\ stage_calls' = FinishCall(stage_calls, response)
              /\ stage_result' = trim_verification_report(
                                     stage_locals.search_status_notes,
                                     verification_content)
    /\ stage_pc' = "done"
    /\ UNCHANGED <<stage_log, stage_locals>>
    /\ UNCHANGED <<qvars, dvars, pvars, stvars, svars, cvars, gvars, fvars>>

\* stage_verification has issued its scope call.
InitVerification ==
    /\ IdleQuery
    /\ IdleData
    /\ IdlePanel
    /\ conv_exists = FALSE
    /\ messages = <<>>
    /\ IdleStreams
    /\ IdleGate
    /\ IdleHelper
    /\ stage_pc = "scope"
    /\ stage_calls = IssueCall(<<>>, "scope", VerificationLocals)
    /\ stage_log = <<>>
    /\ stage_locals = VerificationLocals
    /\ stage_result = <<>>

NextVerification == ScopeReturn \/ TargetsReturn \/ SearchReturn \/ ReportReturn

SpecVerification == InitVerification /\ [][NextVerification]_vars

\* ----------------------------------------------------------------------
\* Claims about the verification stage
\* ----------------------------------------------------------------------

CallsTo(name) == {n \in DOMAIN stage_calls : stage_calls[n].call = name}

\* C25: stage_verification never aborts: whatever the scope, target and
\* search calls return, it goes on, issues the report-assembly call and
\* returns a report; and when the scope is unavailable or no valid target
\* was obtained, the report begins with a Search Status section that lists
\* the degradation.
C25_NeverAborts ==
    /\ stage_pc # "raised"
    /\ stage_pc \in {"scope", "targets", "search", "report"} => ENABLED NextVerification
    /\ stage_pc = "done" =>
          /\ CallsTo("report") # {}
          /\ stage_result.body \in {"Verification unavailable.", "text", "audit"}
          /\ (~stage_locals.search_scope \/ stage_locals.search_targets = <<>>) =>
                stage_result.search_status # <<>>

\* The scope answer was valid JSON of the wrong type, the stage went on to
\* the report call and returned a report under a Search Status section.
C25_Witness ==
    /\ stage_pc = "done"
    /\ stage_calls[1].result = ContentDict("json_list")
    /\ Len(stage_calls) = 2
    /\ stage_calls[2].call = "report"
    /\ stage_result.search_status = <<NoteScopeFailed>>
    /\ stage_result.body = "audit"

\* Every search call of the run came back without content.
AllSearchesEmpty ==
    /\ CallsTo("search") # {}
    /\ \A n \in CallsTo("search") : safe_content(stage_calls[n].result) = NoContent

\* C26: when targets were selected and no evidence was obtained for any of
\* them (every search call failed or returned empty content), the report
\* carries a Search Status note and the report-assembly call is made
\* without a search-evidence section.
C26_NoEvidenceNoted ==
    (stage_pc = "done" /\ stage_locals.search_targets # <<>> /\ AllSearchesEmpty)
        => (stage_result.search_status # <<>> /\ ~stage_locals.evidence_section)

\* Two targets, both searches failed: the report prompt held an evidence
\* section of two placeholder blocks and the report has no Search Status.
C26_Witness ==
    /\ stage_pc = "done"
    /\ stage_locals.search_targets = <<"ok", "ok">>
    /\ AllSearchesEmpty
    /\ stage_locals.evidence_blocks =
          <<"No evidence summary available.", "No evidence summary available.">>
    /\ stage_locals.evidence_section
    /\ stage_result.search_status = <<>>

\* ----------------------------------------------------------------------
\* Values and their serialized form
\* ----------------------------------------------------------------------

\* The characters a string body stands for.
RECURSIVE Unescape(_)
Unescape(body) ==
    IF body = <<>> THEN <<>>
    ELSE IF body[1] = Backslash
       THEN <<body[2]>> \o Unescape(SubSeq(body, 3, Len(body)))
    ELSE <<body[1]>> \o Unescape(Tail(body))

\* The value json.loads builds from a text it accepts: a string with its
\* characters, an atom, or an object / array with its member values.
RECURSIVE JsonValue(_)
RECURSIVE MemberValues(_, _)
JsonValue(t) ==
    IF t[1] = Quote
       THEN [kind |-> "string", items |-> Unescape(SubSeq(t, 2, Len(t) - 1))]
    ELSE IF t[1] = Letter
       THEN [kind |-> "atom", items |-> t]
    ELSE [kind |-> KindOf(t[1]),
          items |-> IF Len(t) = 2 THEN <<>> ELSE MemberValues(t, 2)]

MemberValues(t, i) ==
    LET j == ValueEnd(t, i)
    IN  <<JsonValue(SubSeq(t, i, j - 1))>>
            \o (IF t[j] = Comma THEN MemberValues(t, j + 1) ELSE <<>>)

RECURSIVE Escape(_)
Escape(chars) ==
    IF chars = <<>> THEN <<>>
    ELSE (IF chars[1] \in {Quote, Backslash}
             THEN <<Backslash, chars[1]>>
             ELSE <<chars[1]>>) \o Escape(Tail(chars))

\* A serializer that writes string characters as they are.
RECURSIVE DumpsUnescaped(_)
DumpsUnescaped(v) ==
    IF v.kind = "string" THEN <<Quote>> \o v.items \o <<Quote>>
    ELSE IF v.kind = "atom" THEN v.items
    ELSE LET open  == IF v.kind = "object" THEN LBrace ELSE LBracket
             close == IF v.kind = "object" THEN RBrace ELSE RBracket
             Join[n \in 0..Len(v.items)] ==
                 IF n = 0 THEN <<>>
                 ELSE Join[n - 1] \o (IF n > 1 THEN <<Comma>> ELSE <<>>)
                          \o DumpsUnescaped(v.items[n])
         IN  <<open>> \o Join[Len(v.items)] \o <<close>>

\* json.dumps(v): quotes and backslashes of a string are escaped, members
\* are joined by commas (the blank json.dumps puts after a comma is not
\* written).
RECURSIVE json_dumps(_)
json_dumps(v) ==
    IF v.kind = "string" THEN <<Quote>> \o Escape(v.items) \o <<Quote>>
    ELSE IF v.kind = "atom" THEN v.items
    ELSE LET open  == IF v.kind = "object" THEN LBrace ELSE LBracket
             close == IF v.kind = "object" THEN RBrace ELSE RBracket
             Join[n \in 0..Len(v.items)] ==
                 IF n = 0 THEN <<>>
                 ELSE Join[n - 1] \o (IF n > 1 THEN <<Comma>> ELSE <<>>)
                          \o json_dumps(v.items[n])
         IN  <<open>> \o Join[Len(v.items)] \o <<close>>

\* C27: re-running _extract_json on the serialized form of a value it has
\* returned yields the identical value.
C27_FixedPoint ==
    (JsonDone("_extract_json") /\ fn_out.kind # "None") =>
        LET value == JsonValue(fn_out.span)
            again == extract_json(json_dumps(value))
        IN  /\ again.kind = fn_out.kind
            /\ JsonValue(again.span) = value

\* Prose around an object whose string holds an escaped quote and an
\* escaped backslash: the object is returned, its value holds the two
\* characters themselves, and serializing and extracting gives it back.
C27_Witness ==
    /\ JsonDone("_extract_json")
    /\ fn_expect = <<LBrace, Quote, Backslash, Quote, Backslash, Backslash, Quote, RBrace>>
    /\ fn_in = <<Letter>> \o fn_expect \o <<Letter>>
    /\ fn_out.kind = "object"
    /\ JsonValue(fn_out.span).items[1].items = <<Quote, Backslash>>
    /\ json_dumps(JsonValue(fn_out.span)) = fn_expect
    /\ extract_json(json_dumps(JsonValue(fn_out.span))) = fn_out

\* The brace-balanced span _extract_json isolates (<<>>: none).
IsolatedSpan(text) ==
    LET start == FindFromPos(text, LBrace, 1)
        end   == IF start = 0 THEN 0 ELSE ScanFrom(text, start, 0, FALSE, FALSE)
    IN  IF end = 0 THEN <<>> ELSE SubSeq(text, start, end)

BothCommasStripped(payload) ==
    StripCommaBefore(StripCommaBefore(payload, RBrace), RBracket)

\* C30: when the isolated span does not parse, it is retried with the
\* trailing commas before "}" and before "]" stripped, so a span that is
\* valid JSON once both kinds of trailing comma are removed is returned
\* parsed.
C30_BothCommasRepaired ==
    (/\ JsonDone("_extract_json")
     /\ json_loads(fn_in) = JSONDecodeError
     /\ IsolatedSpan(fn_in) # <<>>
     /\ json_loads(IsolatedSpan(fn_in)) = JSONDecodeError
     /\ json_loads(BothCommasStripped(IsolatedSpan(fn_in))) # JSONDecodeError)
        => fn_out = json_loads(BothCommasStripped(IsolatedSpan(fn_in)))

\* An object with a trailing comma in its array and one before its own
\* closing brace: either repair alone leaves the other comma, and the
\* helper returns None.
C30_Witness ==
    /\ JsonDone("_extract_json")
    /\ fn_in = <<LBrace, LBracket, Letter, Comma, RBracket, Comma, RBrace>>
    /\ json_loads(StripCommaBefore(fn_in, RBrace)) = JSONDecodeError
    /\ json_loads(StripCommaBefore(fn_in, RBracket)) = JSONDecodeError
    /\ json_loads(BothCommasStripped(fn_in)).kind = "object"
    /\ fn_out = JsonNone

(***************************************************************************)
(* storage.py: the conversation files of DATA_DIR, and the endpoints of    *)
(* main.py that create, read, list, change and delete them                 *)
(***************************************************************************)

MaxConversations == 2
MaxCalls == 5

\* The ids a request can name (uuid4 strings).
ConvIds == 1..MaxConversations

\* No file at get_conversation_path(id).
NoFile == [id |-> 0, created_at |-> 0, title |-> "", messages |-> <<>>]

\* The None get_conversation returns.
NoConversation == [id |-> 0, created_at |-> 0, title |-> "None", messages |-> <<>>]

\* storage.create_conversation: writes the file of a new conversation.
create_conversation(dir, conversation_id, now) ==
    [dir EXCEPT ![conversation_id] =
        [id |-> conversation_id, created_at |-> now,
         title |-> "New Conversation", messages |-> <<>>]]

\* storage.get_conversation
get_conversation(dir, conversation_id) ==
    IF dir[conversation_id] = NoFile THEN NoConversation ELSE dir[conversation_id]

\* storage.list_conversations: the metadata of every file, newest first.
list_conversations(dir) ==
    LET present == { c \in DOMAIN dir : dir[c] # NoFile }
        Newest(S) == CHOOSE c \in S : \A d \in S : dir[d].created_at <= dir[c].created_at
        Sorted[S \in SUBSET present] ==
            IF S = {} THEN <<>>
            ELSE LET c == Newest(S)
                 IN  <<[id |-> dir[c].id, created_at |-> dir[c].created_at,
                        title |-> dir[c].title,
                        message_count |-> Len(dir[c].messages)]>>
                         \o Sorted[S \ {c}]
    IN  Sorted[present]

\* storage.add_user_message
add_user_message(dir, conversation_id) ==
    IF get_conversation(dir, conversation_id) = NoConversation
       THEN [dir |-> dir, raised |-> "ValueError"]
       ELSE [dir |-> [dir EXCEPT ![conversation_id].messages = Append(@, "user")],
             raised |-> "none"]

\* storage.update_conversation_title
update_conversation_title(dir, conversation_id, title) ==
    IF get_conversation(dir, conversation_id) = NoConversation
       THEN [dir |-> dir, raised |-> "ValueError"]
       ELSE [dir |-> [dir EXCEPT ![conversation_id].title = title],
             raised |-> "none"]

\* A deletion that removes the file when there is one and reports nothing
\* when there is none.
remove_if_present(dir, conversation_id) ==
    [dir |-> [dir EXCEPT ![conversation_id] = NoFile], raised |-> "none"]

\* storage.delete_conversation
delete_conversation(dir, conversation_id) ==
    IF dir[conversation_id] # NoFile
       THEN [dir |-> [dir EXCEPT ![conversation_id] = NoFile], raised |-> "none"]
       ELSE [dir |-> dir, raised |-> "ValueError"]

Respond(op, conversation_id, status, body) ==
    /\ api_calls < MaxCalls
    /\ api_calls' = api_calls + 1
    /\ api_response' = [op |-> op, id |-> conversation_id, status |-> status,
                        body |-> body]
    /\ UNCHANGED <<qvars, pvars, stvars, svars, cvars, gvars, fvars, stagevars>>

\* POST /api/conversations: a fresh uuid4, then create_conversation.
ApiCreate ==
    \E conversation_id \in ConvIds :
        /\ data_dir[conversation_id] = NoFile
        /\ data_dir' = create_conversation(data_dir, conversation_id, api_calls + 1)
        /\ Respond("create", conversation_id, 200, <<data_dir'[conversation_id]>>)

\* GET /api/conversations
ApiList ==
    /\ UNCHANGED data_dir
    /\ Respond("list", 0, 200, list_conversations(data_dir))

\* GET /api/conversations/{conversation_id}
ApiGet ==
    \E conversation_id \in ConvIds :
        LET conversation == get_conversation(data_dir, conversation_id)
        IN  /\ UNCHANGED data_dir
            /\ IF conversation = NoConversation
                  THEN Respond("get", conversation_id, 404, <<>>)
                  ELSE Respond("get", conversation_id, 200, <<conversation>>)

\* DELETE /api/conversations/{conversation_id}
ApiDelete ==
    \E conversation_id \in ConvIds :
        LET deleted == delete_conversation(data_dir, conversation_id)
        IN  /\ data_dir' = deleted.dir
            /\ IF deleted.raised = "ValueError"
                  THEN Respond("delete", conversation_id, 404, <<>>)
                  ELSE Respond("delete", conversation_id, 200, <<>>)

\* POST .../message/stream, as far as the files go: 404 for a conversation
\* that is not there, else the user message is added and, on the first
\* message, the generated title is stored.
ApiMessage ==
    \E conversation_id \in ConvIds :
        LET conversation == get_conversation(data_dir, conversation_id)
            added == add_user_message(data_dir, conversation_id)
            titled == update_conversation_title(added.dir, conversation_id, "titled")
        IN  IF conversation = NoConversation
               THEN /\ UNCHANGED data_dir
                    /\ Respond("message", conversation_id, 404, <<>>)
               ELSE /\ data_dir' = IF Len(conversation.messages) = 0
                                      THEN titled.dir ELSE added.dir
                    /\ Respond("message", conversation_id, 200, <<>>)

\* An empty DATA_DIR and requests arriving one at a time.
InitStorage ==
    /\ IdleQuery
    /\ IdlePanel
    /\ IdleStage
    /\ IdleTurn
    /\ data_dir = [c \in ConvIds |-> NoFile]
    /\ api_calls = 0
    /\ api_response = [op |-> "none", id |-> 0, status |-> 0, body |-> <<>>]

NextStorage ==
    \/ ApiCreate
    \/ ApiList
    \/ ApiGet
    \/ ApiDelete
    \/ ApiMessage

SpecStorage == InitStorage /\ [][NextStorage]_vars

\* C28: a successful delete leaves no conversation under the id
\* (get_conversation returns None, list_conversations does not list it) and
\* leaves every other conversation as it was; a delete of an id that has no
\* conversation answers 404 (the ValueError) and changes nothing.
C28_DeleteRemovesOnlyTarget ==
    [][ (api_calls' = api_calls + 1 /\ api_response'.op = "delete") =>
          LET conversation_id == api_response'.id
              listed == list_conversations(data_dir')
          IN  IF get_conversation(data_dir, conversation_id) # NoConversation
                 THEN /\ api_response'.status = 200
                      /\ delete_conversation(data_dir, conversation_id).raised = "none"
                      /\ get_conversation(data_dir', conversation_id) = NoConversation
                      /\ \A k \in 1..Len(listed) : listed[k].id # conversation_id
                      /\ \A other \in ConvIds \ {conversation_id} :
                            /\ data_dir'[other] = data_dir[other]
                            /\ get_conversation(data_dir', other)
                                   = get_conversation(data_dir, other)
                 ELSE /\ api_response'.status = 404
                      /\ delete_conversation(data_dir, conversation_id).raised = "ValueError"
                      /\ data_dir' = data_dir
      ]_vars

\* Conversation 1 was deleted while conversation 2, titled and holding a
\* message, is still stored and is the only one listed.
C28_Witness ==
    /\ api_response = [op |-> "delete", id |-> 1, status |-> 200, body |-> <<>>]
    /\ get_conversation(data_dir, 1) = NoConversation
    /\ get_conversation(data_dir, 2).title = "titled"
    /\ Len(get_conversation(data_dir, 2).messages) = 1
    /\ Len(list_conversations(data_dir)) = 1
    /\ list_conversations(data_dir)[1].id = 2

\* The returned question came from the agent's list.
AgentProposed(question) ==
    \E idx \in DOMAIN fn_in.raw.questions :
        question = NormalizeItem(idx, fn_in.raw.questions[idx])

\* C31: every agent-proposed question in the returned list has score >= 2
\* (candidates scoring below 2, such as the generic templates, are
\* dropped), and every other returned question is one of the deterministic
\* fallback questions.
C31_OnlyScoredQuestions ==
    (DraftDone /\ fn_in.raw.present) =>
        LET fallback_questions ==
                build_fallback_questions(fn_in.user_query, fn_in.raw.draft)
        IN  \A i \in DOMAIN fn_out :
               IF AgentProposed(fn_out[i])
                  THEN question_score(fn_out[i].question) >= 2
                  ELSE \E k \in DOMAIN fallback_questions :
                          fn_out[i] = fallback_questions[k]

\* The agent proposed one question and it matches a generic template: it
\* scores below 2 and is returned as the first question.
C31_Witness ==
    /\ DraftDone
    /\ fn_in.raw.present
    /\ Len(fn_in.raw.questions) = 1
    /\ fn_in.raw.questions[1].question = Exact(GenericWords)
    /\ question_score(Exact(GenericWords)) < 2
    /\ fn_out[1].question = Exact(GenericWords)
    /\ AgentProposed(fn_out[1])

\* The targets the search loop runs over: search_targets[:search_query_target_count].
SelectedTargets ==
    Take(stage_locals.search_targets, stage_locals.search_query_target_count)

\* The search calls in the order they were issued.
SearchCalls == SelectSeq(stage_calls, LAMBDA c : c.call = "search")

ReportIssued == stage_pc \in {"report", "done"}

\* C32: evidence gathering issues exactly one search call per selected
\* target, in target order, for at most search_query_target_count targets
\* (never more than SEARCH_QUERY_MAX) whatever number of targets came
\* back, and the report-assembly call is issued only after all of those
\* calls have returned.
C32_OneSearchPerTarget ==
    ReportIssued =>
        /\ Len(SelectedTargets) <= stage_locals.search_query_target_count
        /\ stage_locals.search_query_target_count <= SEARCH_QUERY_MAX
        /\ Len(SearchCalls) = Len(SelectedTargets)
        /\ \A k \in DOMAIN SearchCalls : SearchCalls[k].target = k
        /\ \A r \in CallsTo("report") : \A n \in CallsTo("search") :
              n < r /\ stage_calls[n].result # Pending

\* Three targets were selected and the second one's claim is not a string:
\* one search call was made, for the first target, and the report call
\* followed with the third target never searched.
C32_Witness ==
    /\ stage_pc = "done"
    /\ stage_locals.search_targets = <<"ok", "bad_claim", "ok">>
    /\ Len(SelectedTargets) = 3
    /\ Len(SearchCalls) = 1
    /\ SearchCalls[1].target = 1
    /\ stage_calls[Len(stage_calls)].call = "report"

\* The evidence blocks of the search calls that returned a usable answer,
\* in target order.
GatheredBlocks ==
    LET usable == SelectSeq(SearchCalls,
                            LAMBDA c : c.result # Pending
                                       /\ EvidenceBlock(c.result) # "raised")
    IN  [k \in DOMAIN usable |-> EvidenceBlock(usable[k].result)]

\* C38: a failure while one target is processed (its claim is not a
\* string, or its search answer cannot be used) affects only that target:
\* the other selected targets are searched, and the evidence blocks
\* gathered for them are kept and passed to the report-assembly call.
C38_FailureStaysWithTarget ==
    ReportIssued =>
        /\ \A k \in DOMAIN SelectedTargets :
              SelectedTargets[k] = "ok" =>
                  \E n \in DOMAIN SearchCalls : SearchCalls[n].target = k
        /\ GatheredBlocks # <<>> =>
              /\ stage_locals.search_evidence
              /\ stage_locals.evidence_section
              /\ stage_locals.evidence_blocks = GatheredBlocks

\* The first target's search gave evidence, the second target's claim is
\* not a string: the report call was made without an evidence section and
\* the report carries the "Search execution failed" note.
C38_Witness ==
    /\ stage_pc = "done"
    /\ stage_locals.search_targets = <<"ok", "bad_claim">>
    /\ Len(SearchCalls) = 1
    /\ SearchCalls[1].result = ContentDict("json")
    /\ GatheredBlocks = <<"evidence">>
    /\ ~stage_locals.search_evidence
    /\ ~stage_locals.evidence_section
    /\ stage_result.search_status = <<NoteSearchFailed>>

(***************************************************************************)
(* council._normalize_intent_draft by the JSON types of the fields of the  *)
(* analysis object                                                         *)
(***************************************************************************)

\* The type of a JSON value; "null" stands for every falsy value (null, an
\* absent key, "", 0, [], {}), the other types for a non-empty value.
JsonTypes == {"null", "string", "number", "list", "dict"}

\* `value or default`
OrDefault(type, default) == IF type = "null" THEN default ELSE type

\* What one call does, given the types of raw["draft_intent"],
\* draft["deliverable"], draft["explicit_constraints"], raw["display"],
\* raw["questions"], an entry of it and the entry's "question" and
\* "options": it returns the canonical draft, or the first statement that
\* raises ends it.
NormalizeTypes(raw, wants_non_obvious) ==
    LET draft     == OrDefault(raw.draft_intent, "dict")
        display   == OrDefault(raw.display, "dict")
        questions == IF raw.questions = "list" THEN "list" ELSE "null"
        question_text == OrDefault(raw.question, "string")
        deliverable   == OrDefault(raw.deliverable, "dict")
        explicit_constraints == OrDefault(raw.explicit_constraints, "list")
    IN  \* question_text.strip() in the loop over the questions
        IF questions = "list" /\ raw.item = "dict" /\ question_text # "string"
        THEN "AttributeError"
        \* _build_fallback_questions(user_query, draft if it is a dict):
        \* deliverable.get("format"), then the scan of explicit_constraints
        ELSE IF draft = "dict" /\ deliverable # "dict"
        THEN "AttributeError"
        ELSE IF draft = "dict" /\ ~wants_non_obvious /\ explicit_constraints = "number"
        THEN "TypeError"
        \* draft.get("deliverable")
        ELSE IF draft # "dict"
        THEN "AttributeError"
        \* display.get("understanding")
        ELSE IF display # "dict"
        THEN "AttributeError"
        ELSE "draft"

\* The analysis objects tried: fields of a value are typed only when the
\* value is of the type that has them.
TypedRaws ==
    { r \in [draft_intent : JsonTypes, deliverable : JsonTypes,
             explicit_constraints : JsonTypes, display : JsonTypes,
             questions : JsonTypes, item : JsonTypes, question : JsonTypes,
             options : JsonTypes] :
        /\ r.draft_intent # "dict" =>
              (r.deliverable = "null" /\ r.explicit_constraints = "null")
        /\ r.questions # "list" => r.item = "null"
        /\ r.item # "dict" => (r.question = "null" /\ r.options = "null") }

\* One call of _normalize_intent_draft on a typed analysis object.
NormalizeTyped ==
    /\ fn_pc = "call"
    /\ fn_name = "_normalize_intent_draft.types"
    /\ fn_out' = NormalizeTypes(fn_in.raw, fn_in.wants_non_obvious)
    /\ fn_pc' = "done"
    /\ UNCHANGED <<fn_name, fn_in, fn_expect>>
    /\ UNCHANGED <<qvars, dvars, stagevars, pvars, stvars, svars, cvars, gvars>>

InitTyped ==
    /\ IdleQuery
    /\ IdleData
    /\ IdleStage
    /\ IdlePanel
    /\ conv_exists = FALSE
    /\ messages = <<>>
    /\ IdleStreams
    /\ IdleGate
    /\ fn_pc = "call"
    /\ fn_name = "_normalize_intent_draft.types"
    /\ fn_expect = <<>>
    /\ fn_out = <<>>
    /\ \E raw \in TypedRaws, wants_non_obvious \in BOOLEAN :
          fn_in = [raw |-> raw, wants_non_obvious |-> wants_non_obvious]

NextTyped == NormalizeTyped

SpecTyped == InitTyped /\ [][NextTyped]_vars

TypedDone == fn_pc = "done" /\ fn_name = "_normalize_intent_draft.types"

\* C34: _normalize_intent_draft returns a canonical draft without raising
\* for every parsed analysis object, whatever the JSON types of
\* draft_intent, display, questions, a question's text or its options.
C34_AnyTypesNormalized ==
    TypedDone => fn_out = "draft"

\* The analysis object holds a string as draft_intent and nothing else: the
\* call ends in an AttributeError.
C34_Witness ==
    /\ TypedDone
    /\ fn_in.raw.draft_intent = "string"
    /\ fn_in.raw.display = "null"
    /\ fn_in.raw.questions = "null"
    /\ fn_out = "AttributeError"

(***************************************************************************)
(* council._intent_model_candidates and council.stage0_finalize_intent     *)
(***************************************************************************)
CHAIRMAN_MODEL == "minimax/minimax-m2.1"

INTENT_MODEL_FALLBACKS ==
    <<"google/gemini-3-flash-preview",
      "qwen/qwen3-235b-a22b-2507",
      "deepseek/deepseek-v3.2",
      "qwen/qwen2.5-vl-72b-instruct",
      "moonshotai/kimi-k2-0905">>

\* `analysis_model or CHAIRMAN_MODEL`: the chairman model, a selectable
\* model that is no fallback, or one of the fallback models.
RequestedModels ==
    {CHAIRMAN_MODEL, "z-ai/glm-4.7"}
        \cup {INTENT_MODEL_FALLBACKS[i] : i \in DOMAIN INTENT_MODEL_FALLBACKS}

\* The loop of _intent_model_candidates over seed_models.
RECURSIVE OrderedUnseen(_, _, _)
OrderedUnseen(seed_models, seen, ordered) ==
    IF seed_models = <<>> THEN ordered
    ELSE LET model == Head(seed_models)
         IN  IF model = "" \/ model \in seen
             THEN OrderedUnseen(Tail(seed_models), seen, ordered)
             ELSE OrderedUnseen(Tail(seed_models), seen \cup {model},
                                Append(ordered, model))

intent_model_candidates(primary_model) ==
    LET in_fallbacks == \E i \in DOMAIN INTENT_MODEL_FALLBACKS :
                            INTENT_MODEL_FALLBACKS[i] = primary_model
        seed_models == (IF in_fallbacks THEN <<primary_model>> ELSE <<>>)
                           \o INTENT_MODEL_FALLBACKS
    IN  OrderedUnseen(seed_models, {}, <<>>)

\* What a call of stage0_finalize_intent can come back with: "blank" is
\* content of blanks only.
FinalizeAnswers ==
    {NoneResult, ErrorDict(401), ContentDict("empty"), ContentDict("blank"),
     ContentDict("text")}

\* `not content or not content.strip()`
IsBlank(content) == content \in {NoContent, "blank"}

IntentCall(calls, model, body) ==
    Append(calls, [call |-> model, extra_body |-> body, result |-> Pending])

\* The first candidate from position `from` on that is not model_name
\* (0: none).
NextCandidate(candidates, model_name, from) ==
    IF \E i \in from..Len(candidates) : candidates[i] # model_name
    THEN CHOOSE i \in from..Len(candidates) :
             /\ candidates[i] # model_name
             /\ \A j \in from..(i - 1) : candidates[j] = model_name
    ELSE 0

\* The fallback loop without its `break`.
FallbackLoopNoBreak(content, candidates, model_name, from) ==
    NextCandidate(candidates, model_name, from)

\* The fallback loop from position `from` on, entered or continued with
\* `content`: the position of the candidate to call next, 0 when the loop
\* is not entered, is left or is exhausted.
FallbackLoop(content, candidates, model_name, from) ==
    IF ~IsBlank(content) THEN 0
    ELSE NextCandidate(candidates, model_name, from)

\* The end of stage0_finalize_intent.
FinalizeResult(content) ==
    IF IsBlank(content) THEN "Intent analysis unavailable." ELSE content

\* stage0_finalize_intent goes on after a response: to the next fallback
\* call, or to its return.
FinalizeGoOn(calls, content, from) ==
    LET model_name == stage_locals.model_name
        candidates == intent_model_candidates(model_name)
        next == FallbackLoop(content, candidates, model_name, from)
    IN  IF next = 0
        THEN /\ stage_pc' = "done"
             /\ stage_calls' = calls
             /\ stage_locals' = [stage_locals EXCEPT !.content = content]
             /\ stage_result' = FinalizeResult(content)
        ELSE /\ stage_pc' = "fallback"
             /\ stage_calls' = IntentCall(calls, candidates[next], "fallback")
             /\ stage_locals' = [stage_locals EXCEPT !.content = content,
                                                     !.candidate = next]
             /\ UNCHANGED stage_result

\* The call with the reasoning payload returns.
FinalizePrimaryReturn ==
    /\ stage_pc = "primary"
    /\ \E response \in FinalizeAnswers :
          LET calls   == FinishCall(stage_calls, response)
              content == safe_content(response)
          IN  IF IsBlank(content)
              THEN /\ stage_pc' = "retry"
                   /\ stage_calls' = IntentCall(calls, stage_locals.model_name, "plain")
                   /\ stage_locals' = [stage_locals EXCEPT !.content = content]
                   /\ UNCHANGED stage_result
              ELSE FinalizeGoOn(calls, content, 1)
    /\ UNCHANGED stage_log
    /\ UNCHANGED <<qvars, dvars, pvars, stvars, svars, cvars, gvars, fvars>>

\* The retry without the reasoning payload returns.
FinalizeRetryReturn ==
    /\ stage_pc = "retry"
    /\ \E response \in FinalizeAnswers :
          FinalizeGoOn(FinishCall(stage_calls, response), safe_content(response), 1)
    /\ UNCHANGED stage_log
    /\ UNCHANGED <<qvars, dvars, pvars, stvars, svars, cvars, gvars, fvars>>

\* The call of a fallback candidate returns.
FinalizeFallbackReturn ==
    /\ stage_pc = "fallback"
    /\ \E response \in FinalizeAnswers :
          FinalizeGoOn(FinishCall(stage_calls, response), safe_content(response),
                       stage_locals.candidate + 1)
    /\ UNCHANGED stage_log
    /\ UNCHANGED <<qvars, dvars, pvars, stvars, svars, cvars, gvars, fvars>>

\* stage0_finalize_intent has issued its first call.
InitFinalize ==
    /\ IdleQuery
    /\ IdleData
    /\ IdlePanel
    /\ conv_exists = FALSE
    /\ messages = <<>>
    /\ IdleStreams
    /\ IdleGate
    /\ IdleHelper
    /\ stage_pc = "primary"
    /\ \E model_name \in RequestedModels :
          /\ stage_locals = [model_name |-> model_name, content |-> NoContent,
                             candidate |-> 0]
          /\ stage_calls = IntentCall(<<>>, model_name, "reasoning")
    /\ stage_log = <<>>
    /\ stage_result = <<>>

NextFinalize == FinalizePrimaryReturn \/ FinalizeRetryReturn \/ FinalizeFallbackReturn

SpecFinalize == InitFinalize /\ [][NextFinalize]_vars

\* ----------------------------------------------------------------------
\* Claims about stage0_finalize_intent
\* ----------------------------------------------------------------------

\* The attempts in the claimed order: the analysis model with its reasoning
\* payload, the same model without it, each fallback model other than it.
FinalizeAttempts ==
    LET others == SelectSeq(INTENT_MODEL_FALLBACKS,
                            LAMBDA m : m # stage_locals.model_name)
    IN  <<[call |-> stage_locals.model_name, extra_body |-> "reasoning"],
          [call |-> stage_locals.model_name, extra_body |-> "plain"]>>
            \o [i \in DOMAIN others |-> [call |-> others[i], extra_body |-> "fallback"]]

Returned(call) == call.result # Pending

\* C33: stage0_finalize_intent makes its attempts in the order analysis
\* model with reasoning payload, same model without it, each other
\* fallback candidate; it stops at the first non-blank content and issues
\* no later call; it returns 'Intent analysis unavailable.' exactly when
\* every attempt returned blank content; it never raises and never
\* returns an empty string.
C33_FinalizeFallsBack ==
    stage_pc \in {"primary", "retry", "fallback", "done"} =>
        /\ Len(stage_calls) <= Len(FinalizeAttempts)
        /\ \A n \in DOMAIN stage_calls :
              /\ stage_calls[n].call = FinalizeAttempts[n].call
              /\ stage_calls[n].extra_body = FinalizeAttempts[n].extra_body
              /\ n < Len(stage_calls) =>
                    /\ Returned(stage_calls[n])
                    /\ IsBlank(safe_content(stage_calls[n].result))
        /\ stage_pc # "done" => ENABLED NextFinalize
        /\ stage_pc = "done" =>
              LET last == stage_calls[Len(stage_calls)]
                  all_blank ==
                      /\ Len(stage_calls) = Len(FinalizeAttempts)
                      /\ \A n \in DOMAIN stage_calls :
                            IsBlank(safe_content(stage_calls[n].result))
              IN  /\ Returned(last)
                  /\ stage_result \notin {"", NoContent, "null", "empty", "blank"}
                  /\ (stage_result = "Intent analysis unavailable.") <=> all_blank
                  /\ ~all_blank => stage_result = last.result.content

\* The chairman model answered twice with blanks, the first two fallback
\* models with nothing, the third with text: five calls, and the text is
\* the result.
C33_Witness ==
    /\ stage_pc = "done"
    /\ stage_locals.model_name = CHAIRMAN_MODEL
    /\ Len(stage_calls) = 5
    /\ stage_calls[1].result = ContentDict("blank")
    /\ stage_calls[2].extra_body = "plain"
    /\ stage_calls[3].call = INTENT_MODEL_FALLBACKS[1]
    /\ stage_calls[5].call = INTENT_MODEL_FALLBACKS[3]
    /\ stage_calls[5].result = ContentDict("text")
    /\ stage_result = "text"

(***************************************************************************)
(* council.stage0_generate_intent_draft: the loop over candidate_models,   *)
(* by model name                                                           *)
(***************************************************************************)
DraftAnswers == {NoneResult, ErrorDict(401), ContentDict("text")}

DraftCall(calls, model, prompt) ==
    Append(calls, [call |-> model, prompt |-> prompt, result |-> Pending])

\* The loop from the display step of candidate `index` on, up to its next
\* await: the display call of this candidate, the break, the calls of the
\* next candidates, or the end of the list.
RECURSIVE DraftLoopFrom(_, _, _, _)
DraftLoopFrom(locals, calls, index, step) ==
    LET candidate_models == intent_model_candidates(locals.model_name)
    IN  IF index > Len(candidate_models)
        THEN [pc |-> "after_loop", calls |-> calls, locals |-> locals]
        ELSE IF step = "intent"
        THEN IF ~HasContent(locals.intent_response)
             THEN [pc |-> "intent",
                   calls |-> DraftCall(calls, candidate_models[index], "intent"),
                   locals |-> [locals EXCEPT !.candidate = index]]
             ELSE DraftLoopFrom(locals, calls, index, "display")
        ELSE IF step = "display"
        THEN IF ~HasContent(locals.display_response)
             THEN [pc |-> "display",
                   calls |-> DraftCall(calls, candidate_models[index], "display"),
                   locals |-> [locals EXCEPT !.candidate = index]]
             ELSE DraftLoopFrom(locals, calls, index, "check")
        ELSE IF HasContent(locals.intent_response) /\ HasContent(locals.display_response)
        THEN [pc |-> "after_loop", calls |-> calls, locals |-> locals]
        ELSE DraftLoopFrom(locals, calls, index + 1, "intent")

DraftLoopStep(next) ==
    /\ stage_pc' = next.pc
    /\ stage_calls' = next.calls
    /\ stage_locals' = next.locals
    /\ UNCHANGED <<stage_log, stage_result>>
    /\ UNCHANGED <<qvars, dvars, pvars, stvars, svars, cvars, gvars, fvars>>

\* The intent-JSON call of a candidate returns.
DraftIntentReturn ==
    /\ stage_pc = "intent"
    /\ \E response \in DraftAnswers :
          DraftLoopStep(DraftLoopFrom(
              [stage_locals EXCEPT !.intent_response = response],
              FinishCall(stage_calls, response), stage_locals.candidate, "display"))

\* The display call of a candidate returns.
DraftDisplayReturn ==
    /\ stage_pc = "display"
    /\ \E response \in DraftAnswers :
          DraftLoopStep(DraftLoopFrom(
              [stage_locals EXCEPT !.display_response = response],
              FinishCall(stage_calls, response), stage_locals.candidate, "check"))

\* stage0_generate_intent_draft has entered the loop and issued its first
\* call.
InitDraftLoop ==
    /\ IdleQuery
    /\ IdleData
    /\ IdlePanel
    /\ conv_exists = FALSE
    /\ messages = <<>>
    /\ IdleStreams
    /\ IdleGate
    /\ IdleHelper
    /\ \E model_name \in RequestedModels :
          LET first == DraftLoopFrom(
                           [model_name |-> model_name, candidate |-> 0,
                            intent_response |-> NoneResult,
                            display_response |-> NoneResult],
                           <<>>, 1, "intent")
          IN  /\ stage_pc = first.pc
              /\ stage_calls = first.calls
              /\ stage_locals = first.locals
    /\ stage_log = <<>>
    /\ stage_result = <<>>

NextDraftLoop == DraftIntentReturn \/ DraftDisplayReturn

SpecDraftLoop == InitDraftLoop /\ [][NextDraftLoop]_vars

\* The calls made with the given prompt, in the order they were issued.
CallsWith(prompt) == SelectSeq(stage_calls, LAMBDA c : c.prompt = prompt)

\* C35: the candidate list the intent-draft stage iterates over starts with
\* the requested analysis model, followed by the configured fallback
\* models in their order with no model twice, so the requested model is
\* the first backend asked for the intent JSON and for the display text.
C35_RequestedModelFirst ==
    stage_pc \in {"intent", "display", "after_loop"} =>
        LET model_name == stage_locals.model_name
            candidate_models == intent_model_candidates(model_name)
        IN  /\ candidate_models =
                  <<model_name>> \o SelectSeq(INTENT_MODEL_FALLBACKS,
                                              LAMBDA m : m # model_name)
            /\ CallsWith("intent") # <<>> => CallsWith("intent")[1].call = model_name
            /\ CallsWith("display") # <<>> => CallsWith("display")[1].call = model_name

\* The chairman model was requested: the list holds the five fallback
\* models only, the first of them answered both calls and the chairman
\* model was never asked.
C35_Witness ==
    /\ stage_pc = "after_loop"
    /\ stage_locals.model_name = CHAIRMAN_MODEL
    /\ intent_model_candidates(CHAIRMAN_MODEL) = INTENT_MODEL_FALLBACKS
    /\ Len(stage_calls) = 2
    /\ stage_calls[1].call = INTENT_MODEL_FALLBACKS[1]
    /\ stage_calls[2].call = INTENT_MODEL_FALLBACKS[1]
    /\ \A n \in DOMAIN stage_calls : stage_calls[n].call # CHAIRMAN_MODEL

(***************************************************************************)
(* Several clients on one conversation: each sends a message             *)
(* (main.send_message_stream) and continues (main.continue_message_stream) *)
(* while the others do the same                                            *)
(***************************************************************************)
\* request.content of the send-message request of client r.
QueryTexts == <<"first query", "second query", "third query", "fourth query">>

Query(r) == QueryTexts[r]

\* The message add_user_message appends.
UserMessageOf(content) == [UserMessage EXCEPT !.content = content]

\* The draft stage0_generate_intent_draft returns for a user query.
DraftFor(user_query) == [primary_intent |-> user_query]

\* The clarification_payload of the continue request of client r: the
\* questions are skipped and the free text is the client's own.
ClientPayload(r) == [answers |-> 0, skip |-> TRUE, free_text |-> Query(r)]

ClientStep(r, pc, event) ==
    /\ g_pc' = [g_pc EXCEPT ![r] = pc]
    /\ g_events' = [g_events EXCEPT ![r] = IF event = "" THEN @ ELSE Append(@, event)]
    /\ UNCHANGED conv_exists
    /\ UNCHANGED <<qvars, dvars, stagevars, pvars, svars, cvars, fvars>>

\* The handler body of send_message_stream for client r.
ClientSendRequest(r) ==
    /\ g_pc[r] = "none"
    /\ ClientStep(r, IF conv_exists THEN "send_accepted" ELSE "rejected", "")
    /\ UNCHANGED <<messages, g_payload, g_pending>>

\* event_generator of send_message_stream up to its first await.
ClientSendStart(r) ==
    /\ g_pc[r] = "send_accepted"
    /\ messages' = Append(messages, UserMessageOf(Query(r)))
    /\ ClientStep(r, "draft", "intent_draft_start")
    /\ UNCHANGED <<g_payload, g_pending>>

\* stage0_generate_intent_draft has returned or raised; the generator runs
\* to its end.
ClientSendDraft(r) ==
    /\ g_pc[r] = "draft"
    /\ \E returned \in BOOLEAN :
          IF returned
             THEN /\ messages' = Append(messages, DraftMessage(DraftFor(Query(r))))
                  /\ ClientStep(r, "stored", "clarification_required")
             ELSE /\ UNCHANGED messages
                  /\ ClientStep(r, "send_failed", "error")
    /\ UNCHANGED <<g_payload, g_pending>>

\* The handler body of continue_message_stream for client r, sent once the
\* client's first stream has ended or without one.
ClientContinueRequest(r) ==
    /\ g_pc[r] \in {"none", "stored", "send_failed"}
    /\ LET idx == find_pending_intent_message(conv_exists, messages)
       IN IF ~conv_exists \/ idx = 0 \/ idx = 1
                THEN /\ ClientStep(r, "rejected", "")          \* HTTP 404 / 400
                     /\ UNCHANGED <<g_payload, g_pending>>
                ELSE /\ ClientStep(r, "accepted", "")
                     /\ g_pending' = [g_pending EXCEPT
                            ![r] = [index |-> idx, status |-> messages[idx].status,
                                    user_query |-> messages[idx - 1].content,
                                    intent_draft |-> messages[idx].intent_draft]]
                     /\ g_payload' = [g_payload EXCEPT ![r] = ClientPayload(r)]
    /\ UNCHANGED messages

\* event_generator of continue_message_stream up to its first await.
ClientContinueStart(r) ==
    /\ g_pc[r] = "accepted"
    /\ IF find_pending_intent_message(conv_exists, messages) = 0
          THEN \* mark_pending_intent_submitted raises ValueError
               /\ ClientStep(r, "failed", "error")
               /\ UNCHANGED messages
          ELSE /\ messages' = mark_pending_intent_submitted(messages, g_payload[r])
               /\ ClientStep(r, "running", "stage0_start")
    /\ UNCHANGED <<g_payload, g_pending>>

\* The stages of the run of client r have returned; the result is stored
\* and the stream ends.
ClientContinueFinish(r) ==
    /\ g_pc[r] = "running"
    /\ IF find_pending_intent_message(conv_exists, messages) = 0
          THEN \* finalize_intent_message raises ValueError
               /\ ClientStep(r, "failed", "error")
               /\ UNCHANGED messages
          ELSE /\ messages' = finalize_intent_message(messages, "text")
               /\ ClientStep(r, "done", "complete")
    /\ UNCHANGED <<g_payload, g_pending>>

\* The conversation has been created and holds no message.
InitClients ==
    /\ IdleQuery
    /\ IdleData
    /\ IdleStage
    /\ IdlePanel
    /\ IdleStreams
    /\ conv_exists = TRUE
    /\ messages = <<>>
    /\ g_pc = [r \in Requests |-> "none"]
    /\ g_payload = [r \in Requests |-> [answers |-> 0, skip |-> FALSE]]
    /\ g_pending = [r \in Requests |->
                       [index |-> 0, status |-> "none", user_query |-> "none",
                        intent_draft |-> DraftFor("none")]]
    /\ g_events = [r \in Requests |-> <<>>]
    /\ IdleHelper

NextClients ==
    \/ \E r \in Requests : ClientSendRequest(r)
    \/ \E r \in Requests : ClientSendStart(r)
    \/ \E r \in Requests : ClientSendDraft(r)
    \/ \E r \in Requests : ClientContinueRequest(r)
    \/ \E r \in Requests : ClientContinueStart(r)
    \/ \E r \in Requests : ClientContinueFinish(r)

SpecClients == InitClients /\ [][NextClients]_vars

\* The continue request of client r has resolved a pending message.
Resolved(r) == g_pc[r] \in {"accepted", "running", "done", "failed"}

\* C37: whenever continue_message_stream resolves the pending intent
\* message at index p, the message before it is the user message whose
\* request produced that draft, so the user query the run uses belongs to
\* the draft it uses, under any interleaving of send-message requests.
C37_QueryBelongsToDraft ==
    \A r \in Requests :
        Resolved(r) =>
            /\ messages[g_pending[r].index - 1].role = "user"
            /\ g_pending[r].intent_draft = DraftFor(g_pending[r].user_query)

\* Two clients sent their messages before either draft was stored: the
\* pending draft is that of the first query and the message before it is
\* the user message of the second, which the run takes as its query.
C37_Witness ==
    \E r \in Requests :
        /\ Resolved(r)
        /\ messages[g_pending[r].index - 1].role = "user"
        /\ g_pending[r].intent_draft = DraftFor(Query(1))
        /\ g_pending[r].user_query = Query(2)

\* C36: finalize_intent_message stores the results of a run in the
\* assistant message the run was started from (the one whose draft and
\* preceding user query it read), whatever other requests did to the
\* conversation while the run was in progress.
C36_ResultsInOwnMessage ==
    [][\A r \in Requests :
          (g_pc[r] = "running" /\ g_pc'[r] = "done") =>
              /\ messages'[g_pending[r].index].status = "complete"
              /\ \A i \in DOMAIN messages :
                    messages'[i] # messages[i] => i = g_pending[r].index]_vars

\* A run that was started from one draft has ended with `complete` while
\* its own message still waits as submitted: its results are in the draft
\* message of a later request, stored while the run was in progress.
C36_Witness ==
    \E r \in Requests :
        /\ g_pc[r] = "done"
        /\ messages[g_pending[r].index].status = "clarification_submitted"
        /\ \E i \in DOMAIN messages :
              /\ i > g_pending[r].index
              /\ messages[i].status = "complete"
              /\ messages[i].intent_draft # g_pending[r].intent_draft

StatusRank(status) ==
    CASE status = "clarification_pending" -> 1
      [] status = "clarification_submitted" -> 2
      [] status = "complete" -> 3
      [] OTHER -> 0

\* C39: the status of a stored assistant message only moves forward along
\* clarification_pending -> clarification_submitted -> complete, and a
\* complete message is never modified again by
\* mark_pending_intent_submitted or finalize_intent_message.
C39_StatusOnlyForward ==
    [][\A i \in DOMAIN messages :
          /\ i \in DOMAIN messages'
          /\ StatusRank(messages'[i].status) >= StatusRank(messages[i].status)
          /\ messages[i].status = "complete" => messages'[i] = messages[i]]_vars

\* A message is complete and, after that, another run has marked and
\* finalized a different message of the conversation.
C39_Witness ==
    \E i, j \in DOMAIN messages :
        /\ i # j
        /\ messages[i].status = "complete"
        /\ messages[j].status = "complete"
        /\ \A r \in Requests : g_pc[r] = "done"

====
